---- MODULE Spec2Model ----
(***************************************************************************)
(* A model of three mechanisms of stress-ng:                               *)
(*   - the shared-memory bump allocator with string interning              *)
(*     (core-shared-heap.c),                                               *)
(*   - the per-trial fork/wait sandbox (stress-sysbadaddr.c),              *)
(*   - the sysfs walker with its reader threads (stress-sysfs.c).          *)
(* Each mechanism has its own specification over the same variables; the   *)
(* variables of the other mechanisms stay at their initial values.         *)
(***************************************************************************)
EXTENDS Integers, Sequences, FiniteSets, TLC

(***************************************************************************)
(* Bounds of the model.                                                    *)
(***************************************************************************)
\* size_t / ssize_t are WordBits wide in the model (64 in the build).
WordBits == 7
\* stress_get_page_size() is 2^PageShift.
PageShift == 5
\* The requested heap size before page rounding (the STRESS_MINIMUM of line 52).
HeapRequest == 24
\* Processes sharing the heap.
NProcs == 2
\* Calls of the four functions of core-shared-heap.c in a run.
MaxCalls == 5
\* Calls of stress_shared_heap_dup_const in a run that does interning only.
MaxInterns == 3
\* Acquisitions of a valid lock that fail in a run.
MaxLockFails == 1
\* Length of the longest text interned.
MaxStrLen == 2
\* Entries of the bad_syscalls and of the bad_addrs tables.
NOps == 2
NAddrs == 2
\* The largest bogo-op budget (max_ops) a run is given.
MaxOps == 2
\* Reader threads of the sysfs stressor (MAX_READ_THREADS).
NThreads == 2
\* Regular files one pass of stress_sys_dir publishes.
NLeaves == 2
\* Descriptors a reader thread is followed to hold open at once.
MaxFds == 2
\* Entries of a directory of the tree under /sys.
NEntries == 2
\* The depth below which stress_sys_dir does not go (20 in the build).
DepthLimit == 1

\* sizeof(void *)
PtrSize == 8

W == 2 ^ WordBits
page_size == 2 ^ PageShift
NULL == -1
Procs == 1 .. NProcs

(***************************************************************************)
(* Machine arithmetic.                                                     *)
(***************************************************************************)
\* A size_t value read as ssize_t: the (ssize_t) casts of lines 104 and 105.
ToSigned(x) == IF x >= W \div 2 THEN x - W ELSE x

\* (x + a - 1) & ~(a - 1) in size_t arithmetic, a a power of two.
AlignUp(x, a) == LET y == (x + a - 1) % W IN y - (y % a)

\* The same rounding without wrap-around: what a request asks of the region.
AlignUpMath(x, a) == ((x + a - 1) \div a) * a

(***************************************************************************)
(* Texts: C strings as sequences of non-zero characters.                   *)
(***************************************************************************)
LongText == [i \in 1 .. MaxStrLen |-> 1]
Texts == {<<1>>, LongText}

\* strlen(str)
strlen(str) == Len(str)

\* strcmp(a, b) == 0
StrEqual_Prefix(a, b) ==
    \E n \in 0 .. Len(b) : a = SubSeq(b, 1, n)
StrEqual(a, b) == a = b

\* Sizes handed to stress_shared_heap_malloc by its callers.
Sizes == {0, page_size, W \div 2, W - PtrSize}

VARIABLES
    \* ---- shared by the stressors ----
    g_keep_stressing_flag,  \* cleared by the run's signal handlers
    counter,       \* the bogo-op counter of the stressor's args
    max_ops,       \* the bogo-op budget of the run, 0 when there is none
    \* ---- stress-sysbadaddr.c ----
    wrapper,       \* the process that runs the trials (the parent of stress_do_syscall)
    child,         \* the child forked for the trial in progress
    run,           \* the process that runs stress_sysbadaddr (the wrapper's parent)
    \* ---- stress-sysfs.c ----
    walker,        \* the thread that runs stress_sysfs
    readers,       \* the threads that run stress_sys_rw_thread
    sysfs_path,    \* the path the walker published last
    lock,          \* holder of the spin lock on sysfs_path, 0 when free
    segv_abort,    \* set by stress_segv_handler
    trav,          \* one pass of stress_sys_dir over the tree
    probe,         \* one reader thread inside stress_sys_rw, call by call
    \* ---- core-shared-heap.c ----
    shared_heap,   \* g_shared->shared_heap
    lock_owner,    \* holder of shared_heap.lock, 0 when free
    mem,           \* the nodes written into the mapping: address -> [next, str]
    wild,          \* a node was written outside the mapping or over another node
    pc,            \* per process: where it is in malloc / dup_const
    loc,           \* per process: the locals of the call in progress
    mallocs,       \* history: the non-empty chunks malloc returned since the last init
    last_malloc,   \* history: the malloc call that returned last
    dups,          \* history: the results of dup_const since the last init
    epoch,         \* history: what the calls since the last init did
    env            \* history: counts of the calls made, and whether the last init
                   \* or deinit called munmap and stress_lock_destroy

heapVars == <<shared_heap, lock_owner, mem, wild, pc, loc, mallocs, last_malloc, dups,
              epoch, env>>

stressVars == <<g_keep_stressing_flag, counter, max_ops>>

sandboxVars == <<wrapper, child>>

walkerVars == <<walker, readers, sysfs_path, lock, segv_abort>>

travVars == <<trav>>

runVars == <<run>>

probeVars == <<probe>>

vars == <<heapVars, stressVars, sandboxVars, walkerVars, travVars, runVars, probeVars>>

(***************************************************************************)
(* core-shared-heap.c                                                      *)
(***************************************************************************)
NoLoc == [caller |-> "none", size |-> 0, str |-> <<>>, heap_str |-> NULL]

EpochInit(base) ==
    [base |-> base,        \* shared_heap.offset when the region was initialised
     demand |-> 0,         \* sum of the rounded sizes asked of malloc
     pure |-> TRUE,        \* only dup_const was called
     sequential |-> TRUE,  \* no call started while another was in progress
     ndups |-> 0,          \* dup_const calls that returned
     refused |-> FALSE,    \* a request was refused for lack of room
     deinits |-> 0]        \* deinit calls since the last init

NoMalloc == [size |-> 0, res |-> NULL, locked |-> FALSE, before |-> 0, after |-> 0,
             oom |-> FALSE, demand |-> 0]

HeapInit ==
    /\ shared_heap = [heap |-> "NULL", heap_size |-> 0, offset |-> 0,
                      out_of_memory |-> FALSE, str_list_head |-> NULL,
                      lock |-> "NULL"]
    /\ lock_owner = 0
    /\ mem = <<>>
    /\ wild = FALSE
    /\ pc = [p \in Procs |-> "idle"]
    /\ loc = [p \in Procs |-> NoLoc]
    /\ mallocs = <<>>
    /\ last_malloc = NoMalloc
    /\ dups = {}
    /\ epoch = EpochInit(0)
    /\ env = [inits |-> 0, deinits |-> 0, calls |-> 0, lock_fails |-> 0,
              munmap |-> FALSE, lock_destroy |-> FALSE]

Quiescent == \A p \in Procs : pc[p] \in {"idle", "crashed"}

\* The run may call one more function of the file.
MayCall == env.inits + env.deinits + env.calls < MaxCalls

\* heap_size as line 54 computes it.
HeapSizeOf(size) == AlignUp(size, page_size)

\* stress_shared_heap_init(): mmap and stress_lock_create each succeed or fail.
\* It is called on a region that is not initialised: at start, or after deinit.
stress_shared_heap_init ==
    /\ Quiescent
    /\ shared_heap.lock = "NULL"
    /\ MayCall
    /\ \E map_ok \in BOOLEAN, lock_ok \in BOOLEAN :
         /\ shared_heap' =
              [shared_heap EXCEPT
                 !.out_of_memory = FALSE,
                 !.heap_size = HeapSizeOf(HeapRequest),
                 !.str_list_head = NULL,
                 !.heap = IF ~map_ok THEN "MAP_FAILED"
                          ELSE IF ~lock_ok THEN "NULL" ELSE "MAPPED",
                 !.lock = IF map_ok /\ lock_ok THEN "VALID" ELSE "NULL"]
         /\ env' = [env EXCEPT !.inits = @ + 1,
                               !.munmap = map_ok /\ ~lock_ok,
                               !.lock_destroy = FALSE]
    /\ lock_owner' = 0
    /\ mem' = <<>>
    /\ wild' = FALSE
    /\ mallocs' = <<>>
    /\ last_malloc' = NoMalloc
    /\ dups' = {}
    /\ epoch' = EpochInit(shared_heap.offset)
    /\ UNCHANGED <<pc, loc>>

\* The fields stress_shared_heap_deinit() leaves (lines 79..87).
DeinitFields_KeepHandles(sh) == [sh EXCEPT !.out_of_memory = FALSE]
DeinitFields(sh) ==
    [sh EXCEPT !.heap = "NULL", !.lock = "NULL", !.out_of_memory = FALSE]

\* stress_shared_heap_deinit()
stress_shared_heap_deinit ==
    /\ Quiescent
    /\ MayCall
    /\ env' = [env EXCEPT
                 !.deinits = @ + 1,
                 !.munmap = shared_heap.heap # "NULL",
                 !.lock_destroy = shared_heap.lock # "NULL"]
    /\ shared_heap' = DeinitFields(shared_heap)
    /\ lock_owner' = 0
    /\ mem' = <<>>
    /\ mallocs' = <<>>
    /\ last_malloc' = NoMalloc
    /\ dups' = {}
    /\ epoch' = [EpochInit(epoch.base) EXCEPT !.deinits = epoch.deinits + 1]
    /\ wild' = FALSE
    /\ UNCHANGED <<pc, loc>>


\* stress_lock_acquire() on shared_heap.lock: it fails on an absent lock, may
\* fail on a valid one, and otherwise waits until the lock is free.
LockFails(may_fail) ==
    \/ shared_heap.lock = "NULL"
    \/ may_fail /\ env.lock_fails < MaxLockFails

\* The count of failed acquisitions of a valid lock after one more acquisition.
LockFailed(e) ==
    IF shared_heap.lock = "NULL" THEN e ELSE [e EXCEPT !.lock_fails = @ + 1]
LockFree == shared_heap.lock = "VALID" /\ lock_owner = 0

OthersIdle(p) == \A q \in Procs \ {p} : pc[q] \in {"idle", "crashed"}

\* line 104: heap_free = heap_size - offset, a size_t difference read as ssize_t
HeapFree(sh) == ToSigned((sh.heap_size - sh.offset + W) % W)

\* line 105: the request is refused when heap_free < (ssize_t)size
MallocRefused(sh, size) == HeapFree(sh) < ToSigned(size)

\* line 106: the refusal sets the flag
MallocOom(sh) == [sh EXCEPT !.out_of_memory = TRUE]

\* lines 110..111: the chunk handed out is at the offset, which then advances
MallocBump_ClearsFlag(sh, size) ==
    [sh EXCEPT !.offset = (@ + AlignUp(size, PtrSize)) % W,
               !.out_of_memory = FALSE]
MallocBump(sh, size) ==
    [sh EXCEPT !.offset = (@ + AlignUp(size, PtrSize)) % W]

\* What a call of malloc leaves behind when it returns ptr to its caller, the
\* caller being outside this file ("api") or dup_const ("dup", lines 141..143).
MallocReturn(p, caller, ptr, rec, ep) ==
    /\ mallocs' = IF ptr = NULL \/ rec.size = 0 THEN mallocs
                  ELSE Append(mallocs, [ptr |-> ptr, size |-> rec.size])
    /\ last_malloc' = rec
    /\ IF caller = "api"
       THEN /\ pc' = [pc EXCEPT ![p] = "idle"]
            /\ loc' = [loc EXCEPT ![p] = NoLoc]
            /\ dups' = dups
            /\ epoch' = ep
       ELSE IF ptr = NULL
       THEN /\ pc' = [pc EXCEPT ![p] = "idle"]
            /\ loc' = [loc EXCEPT ![p] = NoLoc]
            /\ dups' = dups \cup {[str |-> loc[p].str, res |-> NULL,
                                    locks |-> rec.locked]}
            /\ epoch' = [ep EXCEPT !.ndups = @ + 1]
       ELSE /\ pc' = [pc EXCEPT ![p] = "d_copy"]
            /\ loc' = [loc EXCEPT ![p].heap_str = ptr]
            /\ dups' = dups
            /\ epoch' = ep

\* stress_shared_heap_malloc(), lines 101..102: the lock is not acquired and
\* the call returns NULL, or the lock is acquired.
MallocAcquire(p, caller, size, ep) ==
    \/ /\ \E may_fail \in BOOLEAN : LockFails(may_fail)
       /\ MallocReturn(p, caller, NULL,
             [size |-> size, res |-> NULL, locked |-> FALSE,
              before |-> shared_heap.offset, after |-> shared_heap.offset,
              oom |-> shared_heap.out_of_memory, demand |-> ep.demand], ep)
       /\ env' = [LockFailed(env) EXCEPT
                    !.calls = IF caller = "api" THEN @ + 1 ELSE @]
       /\ UNCHANGED <<shared_heap, lock_owner>>
    \/ /\ LockFree
       /\ lock_owner' = p
       /\ pc' = [pc EXCEPT ![p] = "m_critical"]
       /\ loc' = [loc EXCEPT ![p].caller = caller, ![p].size = size]
       /\ epoch' = ep
       /\ env' = [env EXCEPT !.calls = IF caller = "api" THEN @ + 1 ELSE @]
       /\ UNCHANGED <<shared_heap, mallocs, last_malloc, dups>>

\* A caller outside this file calls stress_shared_heap_malloc(size): lines 96..102
stress_shared_heap_malloc_acquire(p, size) ==
    /\ pc[p] = "idle"
    /\ MayCall
    /\ MallocAcquire(p, "api", size,
          [epoch EXCEPT !.demand = @ + AlignUpMath(size, PtrSize),
                        !.pure = FALSE,
                        !.sequential = @ /\ OthersIdle(p)])
    /\ UNCHANGED <<mem, wild>>

\* stress_shared_heap_malloc(), lines 104..114
stress_shared_heap_malloc_critical(p) ==
    /\ pc[p] = "m_critical"
    /\ lock_owner = p
    /\ LET size == loc[p].size
           refused == MallocRefused(shared_heap, size)
           sh == IF refused THEN MallocOom(shared_heap)
                 ELSE MallocBump(shared_heap, size)
           ptr == IF refused THEN NULL ELSE shared_heap.offset
       IN /\ shared_heap' = sh
          /\ lock_owner' = 0
          /\ MallocReturn(p, loc[p].caller, ptr,
                [size |-> size, res |-> ptr, locked |-> TRUE,
                 before |-> shared_heap.offset, after |-> sh.offset,
                 oom |-> sh.out_of_memory, demand |-> epoch.demand],
                [epoch EXCEPT !.refused = @ \/ refused])
    /\ UNCHANGED <<mem, wild, env>>

\* The bytes a node for str takes: the next link, the text and its terminator
\* (line 140).
NodeLen(str) == strlen(str) + 1 + PtrSize

\* The address of heap_str->str in the node at address node.
StrOf(node) == node + PtrSize

\* The bytes [a, a + n) and [b, b + m) share a byte.
Overlap(a, n, b, m) == n > 0 /\ m > 0 /\ a < b + m /\ b < a + n

\* lines 133..138: walk the list from node and return the first node whose
\* text matches, NULL when there is none.
ListFind_AnyNode(node, str, fuel) ==
    IF \E n \in DOMAIN mem : StrEqual(str, mem[n].str)
    THEN CHOOSE n \in DOMAIN mem : StrEqual(str, mem[n].str)
    ELSE NULL
RECURSIVE ListFind(_, _, _)
ListFind(node, str, fuel) ==
    IF node = NULL \/ fuel = 0 \/ node \notin DOMAIN mem THEN NULL
    ELSE IF StrEqual(str, mem[node].str) THEN node
    ELSE ListFind(mem[node].next, str, fuel - 1)

\* The nodes reachable from the list head, in order.
RECURSIVE ListFrom(_, _)
ListFrom(node, fuel) ==
    IF node = NULL \/ fuel = 0 \/ node \notin DOMAIN mem THEN <<>>
    ELSE <<node>> \o ListFrom(mem[node].next, fuel - 1)

StrList == ListFrom(shared_heap.str_list_head, MaxCalls + 1)

\* What a call of dup_const leaves behind when it returns res.
\* (locks: every acquisition of the lock in the call succeeded.)
DupReturn(p, str, res, locks, ep) ==
    /\ pc' = [pc EXCEPT ![p] = "idle"]
    /\ loc' = [loc EXCEPT ![p] = NoLoc]
    /\ dups' = dups \cup {[str |-> str, res |-> res, locks |-> locks]}
    /\ epoch' = [ep EXCEPT !.ndups = @ + 1]

\* A caller outside this file calls stress_shared_heap_dup_const(str):
\* lines 125..131
stress_shared_heap_dup_const_acquire(p, str) ==
    /\ pc[p] = "idle"
    /\ MayCall
    /\ LET ep == [epoch EXCEPT !.sequential = @ /\ OthersIdle(p)]
       IN \/ /\ \E may_fail \in BOOLEAN : LockFails(may_fail)
             /\ DupReturn(p, str, NULL, FALSE, ep)
             /\ env' = [LockFailed(env) EXCEPT !.calls = @ + 1]
             /\ UNCHANGED lock_owner
          \/ /\ LockFree
             /\ lock_owner' = p
             /\ pc' = [pc EXCEPT ![p] = "d_scan"]
             /\ loc' = [loc EXCEPT ![p] = [NoLoc EXCEPT !.caller = "dup", !.str = str]]
             /\ epoch' = ep
             /\ env' = [env EXCEPT !.calls = @ + 1]
             /\ UNCHANGED dups
    /\ UNCHANGED <<shared_heap, mem, wild, mallocs, last_malloc>>

\* What the scan of lines 133..138 finds: a node or NULL. Once a node has been
\* written over another or outside the mapping, the list holds whatever was
\* written there and the scan may end anywhere.
ScanResults(str) ==
    IF wild THEN {NULL} \cup DOMAIN mem
    ELSE {ListFind(shared_heap.str_list_head, str, MaxCalls + 1)}

\* stress_shared_heap_dup_const(), lines 133..139
stress_shared_heap_dup_const_scan(p) ==
    /\ pc[p] = "d_scan"
    /\ lock_owner = p
    /\ lock_owner' = 0
    /\ \E found \in ScanResults(loc[p].str) :
         IF found # NULL
         THEN DupReturn(p, loc[p].str, StrOf(found), TRUE, epoch)
         ELSE /\ pc' = [pc EXCEPT ![p] = "d_malloc"]
              /\ UNCHANGED <<loc, dups, epoch>>
    /\ UNCHANGED <<shared_heap, mem, wild, mallocs, last_malloc, env>>

\* stress_shared_heap_dup_const(), lines 140..141: the call of malloc
stress_shared_heap_dup_const_malloc(p) ==
    /\ pc[p] = "d_malloc"
    /\ MallocAcquire(p, "dup", NodeLen(loc[p].str),
          [epoch EXCEPT !.demand = @ + AlignUpMath(NodeLen(loc[p].str), PtrSize)])
    /\ UNCHANGED <<mem, wild>>

\* The node at address a of n bytes lies in the mapping and on no other node.
NodeWriteSafe(a, n) ==
    /\ a + n <= shared_heap.heap_size
    /\ \A b \in DOMAIN mem : ~Overlap(a, n, b, NodeLen(mem[b].str))

\* lines 152..153: the lock is not acquired and the copy is returned without
\* being put on the list, or the lock is acquired.
DupAcquire2(p) ==
    \/ /\ \E may_fail \in BOOLEAN : LockFails(may_fail)
       /\ DupReturn(p, loc[p].str, StrOf(loc[p].heap_str), FALSE, epoch)
       /\ env' = LockFailed(env)
       /\ UNCHANGED lock_owner
    \/ /\ LockFree
       /\ lock_owner' = p
       /\ pc' = [pc EXCEPT ![p] = "d_publish"]
       /\ UNCHANGED <<loc, dups, epoch, env>>

\* stress_shared_heap_dup_const(), lines 145..153: strcpy into the new node,
\* clear its link, and acquire the lock again. A write outside the mapping
\* faults or lands in other memory; a write over another node corrupts it.
stress_shared_heap_dup_const_copy(p) ==
    /\ pc[p] = "d_copy"
    /\ LET a == loc[p].heap_str
           n == NodeLen(loc[p].str)
           written == (a :> [next |-> NULL, str |-> loc[p].str]) @@ mem
       IN IF NodeWriteSafe(a, n)
          THEN /\ mem' = written
               /\ DupAcquire2(p)
               /\ UNCHANGED wild
          ELSE \/ /\ mem' = written
                  /\ wild' = TRUE
                  /\ DupAcquire2(p)
               \/ /\ a + n > shared_heap.heap_size
                  /\ pc' = [pc EXCEPT ![p] = "crashed"]
                  /\ UNCHANGED <<mem, wild, lock_owner, loc, dups, epoch, env>>
    /\ UNCHANGED <<shared_heap, mallocs, last_malloc>>

\* lines 158..159: the node is pushed on the head of the list
PublishHead_Skipped(sh, node) == sh
PublishHead(sh, node) == [sh EXCEPT !.str_list_head = node]

\* line 158: the new node is linked to the node at the head of the list
PublishLink_Null(m, node, head) == [m EXCEPT ![node].next = NULL]
PublishLink(m, node, head) == [m EXCEPT ![node].next = head]

\* stress_shared_heap_dup_const(), line 158
stress_shared_heap_dup_const_publish(p) ==
    /\ pc[p] = "d_publish"
    /\ lock_owner = p
    /\ mem' = PublishLink(mem, loc[p].heap_str, shared_heap.str_list_head)
    /\ pc' = [pc EXCEPT ![p] = "d_head"]
    /\ UNCHANGED <<shared_heap, lock_owner, loc, dups, epoch, wild, mallocs,
                   last_malloc, env>>

\* stress_shared_heap_dup_const(), lines 159..162
stress_shared_heap_dup_const_head(p) ==
    /\ pc[p] = "d_head"
    /\ lock_owner = p
    /\ shared_heap' = PublishHead(shared_heap, loc[p].heap_str)
    /\ lock_owner' = 0
    /\ DupReturn(p, loc[p].str, StrOf(loc[p].heap_str), TRUE, epoch)
    /\ UNCHANGED <<mem, wild, mallocs, last_malloc, env>>

(***************************************************************************)
(* The run control the stressors share (keep_stressing, inc_counter).      *)
(***************************************************************************)
\* keep_stressing(): the flag is set and the bogo-op budget, if any, is not used up.
keep_stressing ==
    g_keep_stressing_flag /\ (max_ops = 0 \/ counter < max_ops)

\* inc_counter(args); no budget of the model looks beyond MaxOps, where the
\* count saturates.
inc_counter(c) == IF c < MaxOps THEN c + 1 ELSE c

\* A signal handler of the run clears the flag, at any moment.
stop_stressing ==
    /\ g_keep_stressing_flag
    /\ g_keep_stressing_flag' = FALSE
    /\ UNCHANGED <<counter, max_ops>>

StressIdle == g_keep_stressing_flag = TRUE /\ counter = 0 /\ max_ops = 0

StressInit ==
    g_keep_stressing_flag = TRUE /\ counter = 0 /\ max_ops \in {0, MaxOps}

(***************************************************************************)
(* stress-sysbadaddr.c: one trial per (bad_syscalls[i], bad_addrs[j]).     *)
(***************************************************************************)
\* The signals stress_badhandler is installed for, in the order of the table.
sigs == <<"SIGILL", "SIGTRAP", "SIGFPE", "SIGBUS", "SIGSEGV", "SIGIOT",
          "SIGEMT", "SIGALRM", "SIGINT", "SIGHUP">>

EXIT_SUCCESS == 0
EXIT_FAILURE == 1
EXIT_NO_RESOURCE == 3
EPERM == 1
EFAULT == 14

\* Wait statuses. _exit(code) keeps the low 8 bits of code.
Exited(code) == [kind |-> "exited", code |-> code % 256, sig |-> "none"]
Signaled(sig) == [kind |-> "signaled", code |-> 0, sig |-> sig]
\* int status; before any waitpid has written it.
NoStatus == [kind |-> "none", code |-> 0, sig |-> "none"]

\* WEXITSTATUS(status) is bits 8..15 of the status, which are zero for a child
\* that a signal ended.
WEXITSTATUS(st) == IF st.kind = "exited" THEN st.code ELSE 0

\* What WEXITSTATUS makes of a status no waitpid has written: any byte.
UninitRc == {0, 1, 255}

\* What bad_syscall(addr) does: it returns a value >= 0, fails with an errno,
\* raises a signal (one stress_badhandler catches, or one it does not), or
\* does not return.
Outcome(kind, val, sig) == [kind |-> kind, val |-> val, sig |-> sig]
OpReturns == {0, 3, 1024}
OpErrnos == {EPERM, EFAULT}
OpSignals == {"SIGSEGV", "SIGXCPU"}
OpOutcomes ==
    {Outcome("ret", v, "none") : v \in OpReturns}
    \cup {Outcome("errno", e, "none") : e \in OpErrnos}
    \cup {Outcome("signal", 0, s) : s \in OpSignals}
    \cup {Outcome("hang", 0, "none")}

NoChild ==
    [pc |-> "none",          \* where the child is
     k |-> 0,                \* index into sigs of the handler installed next
     handlers |-> {},        \* signals stress_badhandler is installed for
     timer |-> FALSE,        \* ITIMER_REAL is armed
     done |-> <<>>,          \* history: the calls of the setup that returned
                             \* without making the child exit, in order
     status |-> NoStatus,    \* wait status once it has ended
     end |-> "none",         \* history: what ended it
     op |-> Outcome("none", 0, "none")]  \* history: what bad_syscall did

WrapperIdle ==
    [pc |-> "none", i |-> 1, j |-> 1, pid |-> 0, status |-> NoStatus, rc |-> 0,
     exit |-> -1, sig |-> "none",
     tried |-> <<>>,     \* history: the <<i, j>> of the children forked in this pass
     seen |-> FALSE]     \* history: a keep_stressing() of the wrapper was false

SandboxIdle == wrapper = WrapperIdle /\ child = NoChild

SandboxInit ==
    /\ wrapper = [WrapperIdle EXCEPT !.pc = "start"]
    /\ child = NoChild

ChildAlive == child.pc \notin {"none", "zombie", "reaped"}

\* _exit(code) in the child.
ChildExit(c, code, how) ==
    [c EXCEPT !.pc = "zombie", !.status = Exited(code), !.end = how]

\* stress_badhandler: _exit(1).
stress_badhandler(c, how) == ChildExit(c, 1, how)

\* A signal reaches the child: stress_badhandler runs if it is installed for
\* the signal, the default action ends the child otherwise.
ChildSignal(c, sig, how) ==
    IF sig \in c.handlers
    THEN stress_badhandler(c, how)
    ELSE [c EXCEPT !.pc = "zombie", !.status = Signaled(sig), !.end = how]

\* The wrapper's child branch up to the loop (lines 660..670).
wrapper_entry ==
    /\ wrapper.pc = "start"
    /\ wrapper' = IF keep_stressing
                  THEN [wrapper EXCEPT !.pc = "trial"]
                  ELSE [wrapper EXCEPT !.pc = "exited", !.exit = 0, !.seen = TRUE]
    /\ UNCHANGED <<child, stressVars>>

\* stress_do_syscall up to fork (lines 520..526).
stress_do_syscall_fork ==
    /\ wrapper.pc = "trial"
    /\ \/ /\ ~keep_stressing
          /\ wrapper' = [wrapper EXCEPT !.pc = "returned", !.pid = 0, !.rc = 0,
                                        !.status = NoStatus, !.seen = TRUE]
          /\ child' = NoChild
       \/ /\ keep_stressing
          /\ \E ok \in BOOLEAN :
               IF ok
               THEN /\ wrapper' = [wrapper EXCEPT
                                      !.pc = "waitpid", !.pid = 1,
                                      !.rc = 0, !.status = NoStatus,
                                      !.tried = Append(@, <<wrapper.i, wrapper.j>>)]
                    /\ child' = [NoChild EXCEPT !.pc = "limit_procs"]
               ELSE /\ wrapper' = [wrapper EXCEPT !.pc = "exited",
                                                  !.exit = EXIT_NO_RESOURCE]
                    /\ child' = NoChild
    /\ UNCHANGED stressVars

\* limit_procs(2) (line 532).
limit_procs ==
    /\ child.pc = "limit_procs"
    /\ child' = [child EXCEPT !.pc = "stress_unmap_shared",
                               !.done = Append(@, "limit_procs")]
    /\ UNCHANGED <<wrapper, stressVars>>

\* stress_unmap_shared() (line 535).
stress_unmap_shared ==
    /\ child.pc = "stress_unmap_shared"
    /\ child' = [child EXCEPT !.pc = "stress_drop_capabilities",
                               !.done = Append(@, "stress_unmap_shared")]
    /\ UNCHANGED <<wrapper, stressVars>>

\* stress_drop_capabilities whose result nobody looks at.
stress_drop_capabilities_Unchecked ==
    /\ child.pc = "stress_drop_capabilities"
    /\ \E ok \in BOOLEAN :
         child' = IF ok
                  THEN [child EXCEPT !.pc = "stress_sighandler", !.k = 1,
                                     !.done = Append(@, "stress_drop_capabilities")]
                  ELSE [child EXCEPT !.pc = "stress_sighandler", !.k = 1]
    /\ UNCHANGED <<wrapper, stressVars>>
\* stress_drop_capabilities (lines 538..540).
stress_drop_capabilities ==
    /\ child.pc = "stress_drop_capabilities"
    /\ \E ok \in BOOLEAN :
         child' = IF ok
                  THEN [child EXCEPT !.pc = "stress_sighandler", !.k = 1,
                                     !.done = Append(@, "stress_drop_capabilities")]
                  ELSE ChildExit(child, EXIT_NO_RESOURCE, "setup")
    /\ UNCHANGED <<wrapper, stressVars>>

\* One turn of the loop over sigs (lines 542..545).
stress_sighandler ==
    /\ child.pc = "stress_sighandler"
    /\ \E ok \in BOOLEAN :
         child' = IF ok
                  THEN [child EXCEPT
                          !.handlers = @ \cup {sigs[child.k]},
                          !.k = @ + 1,
                          !.pc = IF child.k = Len(sigs) THEN "setpgid" ELSE @,
                          !.done = IF child.k = Len(sigs)
                                   THEN Append(@, "stress_sighandler") ELSE @]
                  ELSE ChildExit(child, EXIT_FAILURE, "setup")
    /\ UNCHANGED <<wrapper, stressVars>>

\* setpgid(0, g_pgrp) (line 547).
setpgid ==
    /\ child.pc = "setpgid"
    /\ child' = [child EXCEPT !.pc = "stress_parent_died_alarm",
                               !.done = Append(@, "setpgid")]
    /\ UNCHANGED <<wrapper, stressVars>>

\* stress_parent_died_alarm() (line 548).
stress_parent_died_alarm ==
    /\ child.pc = "stress_parent_died_alarm"
    /\ child' = [child EXCEPT !.pc = "setitimer"]
    /\ UNCHANGED <<wrapper, stressVars>>

\* setitimer(ITIMER_REAL, &it, NULL) succeeded.
ArmTimer_NotArmed(c) == [c EXCEPT !.pc = "bad_syscall"]
ArmTimer(c) ==
    [c EXCEPT !.pc = "bad_syscall", !.timer = TRUE, !.done = Append(@, "setitimer")]

\* Arming the watchdog (lines 553..560).
setitimer ==
    /\ child.pc = "setitimer"
    /\ \E ok \in BOOLEAN :
         child' = IF ok
                  THEN ArmTimer(child)
                  ELSE ChildExit(child, EXIT_NO_RESOURCE, "setup")
    /\ UNCHANGED <<wrapper, stressVars>>

\* ret = bad_syscall(addr); if (ret < 0) ret = errno; _exit(ret) (lines 562..565).
bad_syscall ==
    /\ child.pc = "bad_syscall"
    /\ \E o \in OpOutcomes :
         LET c == [child EXCEPT !.op = o]
         IN  child' = CASE o.kind = "ret" -> ChildExit(c, o.val, "returned")
                        [] o.kind = "errno" -> ChildExit(c, o.val, "errno")
                        [] o.kind = "signal" -> ChildSignal(c, o.sig, "signal")
                        [] OTHER -> [c EXCEPT !.pc = "blocked"]
    /\ UNCHANGED <<wrapper, stressVars>>

\* The interval timer expires: SIGALRM reaches the child.
timer_expires ==
    /\ child.timer
    /\ ChildAlive
    /\ child' = ChildSignal(child, "SIGALRM", "watchdog")
    /\ UNCHANGED <<wrapper, stressVars>>

\* A waitpid of the parent returns the pid: the child has ended and is reaped.
waitpid_reaps(from, to) ==
    /\ wrapper.pc = from
    /\ child.pc = "zombie"
    /\ wrapper' = [wrapper EXCEPT !.pc = to, !.status = child.status]
    /\ child' = [child EXCEPT !.pc = "reaped"]
    /\ UNCHANGED stressVars

\* A waitpid of the parent returns -1 (a signal interrupted it): status is
\* not written.
waitpid_fails(from, to) ==
    /\ wrapper.pc = from
    /\ wrapper' = [wrapper EXCEPT !.pc = to]
    /\ UNCHANGED <<child, stressVars>>

\* kill(pid, SIGKILL) (line 574).
kill ==
    /\ wrapper.pc = "kill"
    /\ wrapper' = [wrapper EXCEPT !.pc = "waitpid2"]
    /\ child' = IF ChildAlive
                THEN [child EXCEPT !.pc = "zombie", !.status = Signaled("SIGKILL"),
                                   !.end = "killed"]
                ELSE child
    /\ UNCHANGED stressVars

\* rc = WEXITSTATUS(status); inc_counter(args); return rc (lines 578..582).
stress_do_syscall_return ==
    /\ wrapper.pc = "WEXITSTATUS"
    /\ \E rc \in (IF wrapper.status = NoStatus
                  THEN UninitRc
                  ELSE {WEXITSTATUS(wrapper.status)}) :
         wrapper' = [wrapper EXCEPT !.pc = "returned", !.rc = rc]
    /\ counter' = inc_counter(counter)
    /\ UNCHANGED <<child, g_keep_stressing_flag, max_ops>>

\* The loops over bad_syscalls and bad_addrs, and the do-while around them
\* (lines 672..686).
wrapper_loop ==
    /\ wrapper.pc = "returned"
    /\ wrapper' =
         IF wrapper.j < NAddrs
         THEN [wrapper EXCEPT !.pc = "trial", !.j = @ + 1]
         ELSE IF wrapper.i < NOps
         THEN [wrapper EXCEPT !.pc = "trial", !.i = @ + 1, !.j = 1]
         ELSE IF keep_stressing
         THEN [wrapper EXCEPT !.pc = "trial", !.i = 1, !.j = 1, !.tried = <<>>]
         ELSE [wrapper EXCEPT !.pc = "exited", !.exit = EXIT_SUCCESS, !.seen = TRUE]
    /\ UNCHANGED <<child, stressVars>>

SandboxOnly == UNCHANGED <<heapVars, walkerVars, travVars, runVars, probeVars>>

\* The child runs.
ChildStep ==
    \/ limit_procs
    \/ stress_unmap_shared
    \/ stress_drop_capabilities
    \/ stress_sighandler
    \/ setpgid
    \/ stress_parent_died_alarm
    \/ setitimer
    \/ bad_syscall

\* The parent runs; a waitpid returns the pid once the child has ended.
ParentStep ==
    \/ wrapper_entry
    \/ stress_do_syscall_fork
    \/ waitpid_reaps("waitpid", "WEXITSTATUS")
    \/ kill
    \/ waitpid_reaps("waitpid2", "WEXITSTATUS")
    \/ stress_do_syscall_return
    \/ wrapper_loop

SandboxNext ==
    \/ wrapper_entry /\ SandboxOnly
    \/ stress_do_syscall_fork /\ SandboxOnly
    \/ limit_procs /\ SandboxOnly
    \/ stress_unmap_shared /\ SandboxOnly
    \/ stress_drop_capabilities /\ SandboxOnly
    \/ stress_sighandler /\ SandboxOnly
    \/ setpgid /\ SandboxOnly
    \/ stress_parent_died_alarm /\ SandboxOnly
    \/ setitimer /\ SandboxOnly
    \/ bad_syscall /\ SandboxOnly
    \/ timer_expires /\ SandboxOnly
    \/ waitpid_reaps("waitpid", "WEXITSTATUS") /\ SandboxOnly
    \/ waitpid_fails("waitpid", "kill") /\ SandboxOnly
    \/ kill /\ SandboxOnly
    \/ waitpid_reaps("waitpid2", "WEXITSTATUS") /\ SandboxOnly
    \/ waitpid_fails("waitpid2", "WEXITSTATUS") /\ SandboxOnly
    \/ stress_do_syscall_return /\ SandboxOnly
    \/ wrapper_loop /\ SandboxOnly
    \/ stop_stressing /\ UNCHANGED sandboxVars /\ SandboxOnly

(***************************************************************************)
(* stress-sysbadaddr.c: stress_sysbadaddr, the process that forks the      *)
(* wrapper and waits for it.                                               *)
(***************************************************************************)
NoRun ==
    [pc |-> "none",          \* where stress_sysbadaddr is
     oomable |-> FALSE,      \* g_opt_flags & OPT_FLAGS_OOMABLE
     rc |-> -1,              \* what it returned, or the code it exited with
     status |-> NoStatus,    \* int status of the parent branch (line 625)
     eagain |-> FALSE,       \* history: a fork failed with EAGAIN
     fork_failed |-> FALSE,  \* history: a fork failed for another reason
     forks |-> 0]            \* history: wrappers forked, up to two

RunIdle == run = NoRun

RunInit == \E o \in BOOLEAN : run = [NoRun EXCEPT !.pc = "mmap", !.oomable = o]

\* The wrapper has not ended.
WrapperAlive == wrapper.pc \notin {"none", "exited", "killed"}

\* The wait status of the wrapper once it has ended.
WrapperStatus ==
    IF wrapper.pc = "exited" THEN Exited(wrapper.exit) ELSE Signaled(wrapper.sig)

\* WIFSIGNALED(status) && WTERMSIG(status) == SIGKILL (lines 637, 642)
KilledBySigkill(st) == st.kind = "signaled" /\ st.sig = "SIGKILL"

\* The mmaps of ro_page and rw_page (lines 594..613).
stress_sysbadaddr_mmap ==
    /\ run.pc = "mmap"
    /\ \E ok \in BOOLEAN :
         run' = IF ok THEN [run EXCEPT !.pc = "again"]
                ELSE [run EXCEPT !.pc = "returned", !.rc = EXIT_NO_RESOURCE]
    /\ UNCHANGED <<wrapper, child, stressVars>>

\* What fork() does: it returns a pid, or fails with EAGAIN or another errno.
ForkResults == {"pid", "EAGAIN", "ENOMEM"}

\* again: to the fork of the wrapper (lines 615..623, 689..692).
stress_sysbadaddr_again ==
    /\ run.pc = "again"
    /\ IF ~keep_stressing
       THEN /\ run' = [run EXCEPT !.pc = "returned", !.rc = EXIT_SUCCESS]
            /\ UNCHANGED <<wrapper, child>>
       ELSE \E res \in ForkResults :
              CASE res = "pid" ->
                     /\ run' = [run EXCEPT !.pc = "waitpid",
                                           !.status = NoStatus,
                                           !.forks = IF @ < 2 THEN @ + 1 ELSE @]
                     /\ wrapper' = [WrapperIdle EXCEPT !.pc = "start"]
                     /\ child' = NoChild
                [] res = "EAGAIN" ->
                     /\ run' = [run EXCEPT !.eagain = TRUE]
                     /\ UNCHANGED <<wrapper, child>>
                [] OTHER ->
                     /\ run' = [run EXCEPT !.pc = "returned", !.rc = EXIT_SUCCESS,
                                           !.fork_failed = TRUE]
                     /\ UNCHANGED <<wrapper, child>>
    /\ UNCHANGED stressVars

\* What the parent does with the status of a waitpid that returned the pid
\* (lines 637..659, 689..692): _exit(0), goto again, or return EXIT_SUCCESS.
AfterWait_AlwaysAgain(r, st) == [r EXCEPT !.pc = "again", !.status = st]
AfterWait(r, st) ==
    IF KilledBySigkill(st)
    THEN IF r.oomable
         THEN [r EXCEPT !.pc = "exited", !.rc = 0, !.status = st]
         ELSE [r EXCEPT !.pc = "again", !.status = st]
    ELSE [r EXCEPT !.pc = "returned", !.rc = EXIT_SUCCESS, !.status = st]

\* waitpid(pid, &status, 0) returns the pid: the wrapper has ended (line 628).
stress_sysbadaddr_waitpid ==
    /\ run.pc = "waitpid"
    /\ ~WrapperAlive
    /\ run' = AfterWait(run, WrapperStatus)
    /\ UNCHANGED <<wrapper, child, stressVars>>

\* waitpid returns -1: SIGTERM and SIGKILL are sent, the second waitpid is
\* not looked at, and the function returns (lines 629..636, 689..692).
stress_sysbadaddr_waitpid_fails ==
    /\ run.pc = "waitpid"
    /\ run' = [run EXCEPT !.pc = "returned", !.rc = EXIT_SUCCESS]
    /\ wrapper' = IF WrapperAlive
                  THEN [wrapper EXCEPT !.pc = "killed", !.sig = "SIGTERM"]
                  ELSE wrapper
    /\ UNCHANGED <<child, stressVars>>

\* Signals that end the wrapper from outside: the OOM killer's SIGKILL, or
\* another one.
WrapperSignals == {"SIGKILL", "SIGSEGV"}

\* A signal ends the wrapper.
wrapper_killed ==
    /\ WrapperAlive
    /\ \E sig \in WrapperSignals :
         wrapper' = [wrapper EXCEPT !.pc = "killed", !.sig = sig]
    /\ UNCHANGED <<run, child, stressVars>>

RunOnly == UNCHANGED <<heapVars, walkerVars, travVars, probeVars>>

RunNext ==
    \/ stress_sysbadaddr_mmap /\ RunOnly
    \/ stress_sysbadaddr_again /\ RunOnly
    \/ stress_sysbadaddr_waitpid /\ RunOnly
    \/ stress_sysbadaddr_waitpid_fails /\ RunOnly
    \/ wrapper_killed /\ RunOnly
    \/ SandboxNext

(***************************************************************************)
(* stress-sysfs.c: the walker thread and its reader threads.               *)
(***************************************************************************)
Threads == 1 .. NThreads

\* Paths: dummy_path, the regular files of /sys, and the empty string.
dummy_path == <<0>>
EmptyPath == <<>>
LeafPath(n) == <<n>>
\* What is read through sysfs_path once other calls have written over the
\* stack storage it designates: not a path that was published.
Garbage == <<-2>>

\* The storage sysfs_path designates: an object of static storage duration
\* (dummy_path, the literal ""), the filename array of a call of
\* stress_sys_dir that is running, or that of a call that has returned or
\* that siglongjmp has abandoned.
Storage == {"static", "live", "dead"}

\* The call of stress_sys_dir that owns filename returns, or is abandoned.
FrameEnds(buf) == IF buf = "live" THEN "dead" ELSE buf

\* The strings sysfs_path can be read as after the walker thread has made
\* other calls: the storage of an array whose call has ended is stack the
\* later calls use.
Bytes(buf, path) == IF buf = "dead" THEN {path, Garbage} ELSE {path}

NoReader ==
    [pc |-> "none",          \* where the thread is
     path |-> EmptyPath,     \* char path[PATH_MAX] of stress_sys_rw
     hup |-> FALSE]          \* history: pthread_kill sent it SIGHUP

\* Nothing was reported by the pr_err of line 410.
NoReport == <<-1>>

NoWalker ==
    [pc |-> "none",          \* where stress_sysfs is
     i |-> 1,                \* index of its loops over the threads
     n |-> 0,                \* regular files the pass in progress has come to
     rc |-> -1,              \* what stress_sysfs returned
     ran |-> FALSE,          \* history: the threads were created
     reported |-> NoReport,  \* history: the path the pr_err of line 410 printed
     buf |-> "static",       \* history: the storage sysfs_path designates
     err |-> "none",         \* history: the call of the setup that failed
     ret |-> [t \in Threads |-> "none"]]  \* ret[] of pthread_create

WalkerIdle ==
    /\ walker = NoWalker
    /\ readers = [t \in Threads |-> NoReader]
    /\ sysfs_path = EmptyPath
    /\ lock = 0
    /\ segv_abort = FALSE

WalkerInit ==
    /\ walker = [NoWalker EXCEPT !.pc = "sigsetjmp"]
    /\ readers = [t \in Threads |-> NoReader]
    /\ sysfs_path = EmptyPath
    /\ lock = 0
    /\ segv_abort = FALSE

\* The walker thread as holder of the lock.
WalkerId == NThreads + 1

\* stress_sysfs from sigsetjmp to the mmap of badbuf (lines 408..440).
stress_sysfs_setup ==
    /\ walker.pc = "sigsetjmp"
    /\ \E res \in {"sighandler", "spin_init", "mmap", "ok"} :
         /\ walker' =
              CASE res = "sighandler" ->
                     [walker EXCEPT !.pc = "returned", !.rc = EXIT_FAILURE,
                                    !.err = res]
                [] res = "ok" -> [walker EXCEPT !.pc = "pthread_create", !.i = 1]
                [] OTHER ->
                     [walker EXCEPT !.pc = "returned", !.rc = EXIT_NO_RESOURCE,
                                    !.err = res]
         /\ sysfs_path' = IF res = "sighandler" THEN sysfs_path ELSE dummy_path
    /\ UNCHANGED <<readers, lock, segv_abort, stressVars>>

\* One turn of the loop creating the threads (lines 442..445): ret[i] is kept,
\* and not looked at here.
pthread_create ==
    /\ walker.pc = "pthread_create"
    /\ \E ok \in BOOLEAN :
         /\ walker' = [walker EXCEPT
                         !.ret[walker.i] = IF ok THEN "ok" ELSE "failed",
                         !.i = IF walker.i = NThreads THEN 1 ELSE @ + 1,
                         !.pc = IF walker.i = NThreads THEN "stress_sys_dir" ELSE @,
                         !.ran = @ \/ walker.i = NThreads,
                         !.n = 0]
         /\ readers' = IF ok
                       THEN [readers EXCEPT ![walker.i].pc = "start"]
                       ELSE readers
    /\ UNCHANGED <<sysfs_path, lock, segv_abort, stressVars>>

\* stress_sys_dir at an entry of the directory (lines 321, 333..341, 372):
\* it returns, or it goes for the lock to publish the next regular file.
\* The calls it makes on the way (snprintf, stat, scandir) use the stack.
stress_sys_dir ==
    /\ walker.pc = "stress_sys_dir"
    /\ IF \/ walker.n = 0 /\ (~g_keep_stressing_flag \/ segv_abort)
          \/ walker.n >= NLeaves
          \/ segv_abort
          \/ ~keep_stressing
       THEN /\ walker' = [walker EXCEPT !.pc = "while", !.buf = FrameEnds(@)]
            /\ UNCHANGED <<lock, sysfs_path>>
       ELSE /\ sysfs_path' \in Bytes(walker.buf, sysfs_path)
            /\ \/ /\ lock = 0
                  /\ lock' = WalkerId
                  /\ walker' = [walker EXCEPT !.pc = "publish"]
               \/ /\ walker' = [walker EXCEPT !.n = @ + 1]
                  /\ UNCHANGED lock
    /\ UNCHANGED <<readers, segv_abort, stressVars>>

\* sysfs_path = filename under the lock (lines 374..377).
stress_sys_dir_publish ==
    /\ walker.pc = "publish"
    /\ sysfs_path' = LeafPath(walker.n + 1)
    /\ lock' = 0
    /\ walker' = [walker EXCEPT !.pc = "usleep", !.buf = "live"]
    /\ UNCHANGED <<readers, segv_abort, stressVars>>

\* After the sleep (lines 378..381, 387..394): the loop of the call that
\* published goes on, or was at the last entry of its directory, so that the
\* call returns to the one for the parent directory.
stress_sys_dir_slept ==
    /\ walker.pc = "usleep"
    /\ IF segv_abort
       THEN /\ walker' = [walker EXCEPT !.pc = "while", !.buf = FrameEnds(@)]
            /\ UNCHANGED counter
       ELSE /\ \E last \in BOOLEAN :
                 walker' = [walker EXCEPT
                              !.pc = "stress_sys_dir", !.n = @ + 1,
                              !.buf = IF last THEN FrameEnds(@) ELSE @]
            /\ counter' = inc_counter(counter)
    /\ UNCHANGED <<readers, sysfs_path, lock, segv_abort, g_keep_stressing_flag,
                   max_ops>>

\* while (keep_stressing() && !segv_abort) (line 449).
LoopAgain == keep_stressing /\ ~segv_abort

stress_sysfs_while ==
    /\ walker.pc = "while"
    /\ walker' = IF LoopAgain
                 THEN [walker EXCEPT !.pc = "stress_sys_dir", !.n = 0]
                 ELSE [walker EXCEPT !.pc = "clear"]
    /\ UNCHANGED <<readers, sysfs_path, lock, segv_abort, stressVars>>

\* shim_pthread_spin_lock before the path is cleared (lines 451..453).
stress_sysfs_clear_lock ==
    /\ walker.pc = "clear"
    /\ \/ /\ lock = 0
          /\ lock' = WalkerId
          /\ walker' = [walker EXCEPT !.pc = "clear_unlock"]
       \/ /\ walker' = [walker EXCEPT !.pc = "pthread_kill", !.i = 1]
          /\ UNCHANGED lock
    /\ sysfs_path' \in Bytes(walker.buf, sysfs_path)
    /\ UNCHANGED <<readers, segv_abort, stressVars>>

\* sysfs_path = ""; unlock (lines 455..457).
stress_sysfs_clear ==
    /\ walker.pc = "clear_unlock"
    /\ sysfs_path' = EmptyPath
    /\ lock' = 0
    /\ walker' = [walker EXCEPT !.pc = "pthread_kill", !.i = 1, !.buf = "static"]
    /\ UNCHANGED <<readers, segv_abort, stressVars>>

\* SIGHUP reaches a reader: a call the reader is parked in returns.
Sighup(r) ==
    [r EXCEPT !.pc = IF @ = "parked" THEN "next" ELSE @, !.hup = TRUE]

\* One turn of the loop over pthread_kill (lines 461..464).
pthread_kill ==
    /\ walker.pc = "pthread_kill"
    /\ readers' = IF walker.ret[walker.i] = "ok"
                  THEN [readers EXCEPT ![walker.i] = Sighup(@)]
                  ELSE readers
    /\ walker' = [walker EXCEPT
                    !.i = IF walker.i = NThreads THEN 1 ELSE @ + 1,
                    !.pc = IF walker.i = NThreads THEN "pthread_join" ELSE @]
    /\ sysfs_path' \in Bytes(walker.buf, sysfs_path)
    /\ UNCHANGED <<lock, segv_abort, stressVars>>

\* One turn of the loop over pthread_join (lines 466..469): the join returns
\* once the thread has returned.
pthread_join ==
    /\ walker.pc = "pthread_join"
    /\ IF walker.ret[walker.i] = "ok"
       THEN /\ readers[walker.i].pc = "exited"
            /\ readers' = [readers EXCEPT ![walker.i].pc = "joined"]
       ELSE UNCHANGED readers
    /\ walker' = [walker EXCEPT
                    !.i = IF walker.i = NThreads THEN 1 ELSE @ + 1,
                    !.pc = IF walker.i = NThreads THEN "release" ELSE @]
    /\ UNCHANGED <<sysfs_path, lock, segv_abort, stressVars>>

\* close, munmap, spin_destroy, return EXIT_SUCCESS (lines 470..475).
stress_sysfs_release ==
    /\ walker.pc = "release"
    /\ walker' = [walker EXCEPT !.pc = "returned", !.rc = EXIT_SUCCESS]
    /\ UNCHANGED <<readers, sysfs_path, lock, segv_abort, stressVars>>

\* SIGSEGV in the walker thread during the traversal: stress_segv_handler,
\* and sigsetjmp returns again (lines 48..54, 409..413).
stress_segv_handler_walker ==
    /\ walker.pc \in {"stress_sys_dir", "publish", "usleep"}
    /\ segv_abort' = TRUE
    /\ sysfs_path' \in Bytes(FrameEnds(walker.buf), sysfs_path)
    /\ walker' = [walker EXCEPT !.pc = "returned", !.rc = EXIT_FAILURE,
                                !.reported = sysfs_path',
                                !.buf = FrameEnds(@)]
    /\ UNCHANGED <<readers, lock, stressVars>>

\* stress_sys_rw_thread up to its loop (lines 266..276).
stress_sys_rw_thread_start(t) ==
    /\ readers[t].pc = "start"
    /\ \E ok \in BOOLEAN :
         readers' = [readers EXCEPT ![t].pc = IF ok THEN "outer" ELSE "exited"]
    /\ UNCHANGED <<walker, sysfs_path, lock, segv_abort, stressVars>>

\* The condition both loops of a reader test (lines 120, 278).
ReaderGoesOn == g_keep_stressing_flag /\ ~segv_abort

\* while (g_keep_stressing_flag && !segv_abort) stress_sys_rw(ctxt) (line 278).
stress_sys_rw_thread_loop(t) ==
    /\ readers[t].pc = "outer"
    /\ readers' = [readers EXCEPT ![t].pc = IF ReaderGoesOn THEN "inner"
                                                            ELSE "exited"]
    /\ UNCHANGED <<walker, sysfs_path, lock, segv_abort, stressVars>>

\* The head of the loop of stress_sys_rw and its spin lock (lines 120..124).
stress_sys_rw_lock(t) ==
    /\ readers[t].pc = "inner"
    /\ IF ReaderGoesOn
       THEN \/ /\ lock = 0
               /\ lock' = t
               /\ readers' = [readers EXCEPT ![t].pc = "copy"]
            \/ /\ readers' = [readers EXCEPT ![t].pc = "outer"]
               /\ UNCHANGED lock
       ELSE /\ readers' = [readers EXCEPT ![t].pc = "outer"]
            /\ UNCHANGED lock
    /\ UNCHANGED <<walker, sysfs_path, segv_abort, stressVars>>

\* The copy of sysfs_path under the lock, and the test of it (lines 125..130).
stress_sys_rw_copy(t) ==
    /\ readers[t].pc = "copy"
    /\ lock' = 0
    /\ readers' = IF sysfs_path = EmptyPath \/ ~g_keep_stressing_flag
                  THEN [readers EXCEPT ![t].pc = "outer", ![t].path = EmptyPath]
                  ELSE [readers EXCEPT ![t].pc = "probe", ![t].path = sysfs_path]
    /\ UNCHANGED <<walker, sysfs_path, segv_abort, stressVars>>

\* The opens, reads and writes on path (lines 132..235): they complete, or one
\* of them does not return.
stress_sys_rw_probe(t) ==
    /\ readers[t].pc = "probe"
    /\ \E parks \in BOOLEAN :
         readers' = [readers EXCEPT ![t].pc = IF parks THEN "parked" ELSE "next"]
    /\ UNCHANGED <<walker, sysfs_path, lock, segv_abort, stressVars>>

\* A call a reader is parked in returns by itself.
stress_sys_rw_unparked(t) ==
    /\ readers[t].pc = "parked"
    /\ readers' = [readers EXCEPT ![t].pc = "next"]
    /\ UNCHANGED <<walker, sysfs_path, lock, segv_abort, stressVars>>

\* The tail of the loop of stress_sys_rw (lines 236..247).
stress_sys_rw_next(t) ==
    /\ readers[t].pc = "next"
    /\ readers' = [readers EXCEPT ![t].pc = "inner", ![t].path = EmptyPath]
    /\ UNCHANGED <<walker, sysfs_path, lock, segv_abort, stressVars>>

\* SIGSEGV in a reader during its probes: stress_segv_handler sets segv_abort
\* and jumps to a context saved by another thread.  What follows is
\* undefined: the thread is lost to its loop, or the process ends.
stress_segv_handler_reader(t) ==
    /\ readers[t].pc = "probe"
    /\ segv_abort' = TRUE
    /\ \/ /\ readers' = [readers EXCEPT ![t].pc = "lost"]
          /\ UNCHANGED walker
       \/ /\ readers' = [u \in Threads |-> [readers[u] EXCEPT !.pc = "crashed"]]
          /\ walker' = [walker EXCEPT !.pc = "crashed"]
    /\ UNCHANGED <<sysfs_path, lock, stressVars>>

WalkerOnly == UNCHANGED <<heapVars, sandboxVars, travVars, runVars, probeVars>>

\* The walker thread runs.
WalkerStep ==
    \/ stress_sysfs_setup
    \/ pthread_create
    \/ stress_sys_dir
    \/ stress_sys_dir_publish
    \/ stress_sys_dir_slept
    \/ stress_sysfs_while
    \/ stress_sysfs_clear_lock
    \/ stress_sysfs_clear
    \/ pthread_kill
    \/ pthread_join
    \/ stress_sysfs_release

\* A reader thread runs.
ReaderStep(t) ==
    \/ stress_sys_rw_thread_start(t)
    \/ stress_sys_rw_thread_loop(t)
    \/ stress_sys_rw_lock(t)
    \/ stress_sys_rw_copy(t)
    \/ stress_sys_rw_probe(t)
    \/ stress_sys_rw_next(t)

WalkerNext ==
    \/ stress_sysfs_setup /\ WalkerOnly
    \/ pthread_create /\ WalkerOnly
    \/ stress_sys_dir /\ WalkerOnly
    \/ stress_sys_dir_publish /\ WalkerOnly
    \/ stress_sys_dir_slept /\ WalkerOnly
    \/ stress_sysfs_while /\ WalkerOnly
    \/ stress_sysfs_clear_lock /\ WalkerOnly
    \/ stress_sysfs_clear /\ WalkerOnly
    \/ pthread_kill /\ WalkerOnly
    \/ pthread_join /\ WalkerOnly
    \/ stress_sysfs_release /\ WalkerOnly
    \/ stress_segv_handler_walker /\ WalkerOnly
    \/ \E t \in Threads : stress_sys_rw_thread_start(t) /\ WalkerOnly
    \/ \E t \in Threads : stress_sys_rw_thread_loop(t) /\ WalkerOnly
    \/ \E t \in Threads : stress_sys_rw_lock(t) /\ WalkerOnly
    \/ \E t \in Threads : stress_sys_rw_copy(t) /\ WalkerOnly
    \/ \E t \in Threads : stress_sys_rw_probe(t) /\ WalkerOnly
    \/ \E t \in Threads : stress_sys_rw_unparked(t) /\ WalkerOnly
    \/ \E t \in Threads : stress_sys_rw_next(t) /\ WalkerOnly
    \/ \E t \in Threads : stress_segv_handler_reader(t) /\ WalkerOnly
    \/ stop_stressing /\ UNCHANGED walkerVars /\ WalkerOnly

(***************************************************************************)
(* stress-sysfs.c: stress_sys_rw, the probes of one reader thread, step by *)
(* step.  The path the walker publishes is an input of the call.           *)
(***************************************************************************)
\* ctxt.writeable = (geteuid() != 0) (line 421); root: the run was started
\* with effective user id 0.
Writeable_Always(root) == TRUE
Writeable(root) == ~root

NoProbe ==
    [pc |-> "none",          \* where the thread is
     root |-> FALSE,         \* geteuid() == 0
     writeable |-> FALSE,    \* ctxt->writeable
     path |-> EmptyPath,     \* char path[PATH_MAX]
     fd |-> "none",          \* how the descriptor in fd was opened, if it is open
     nfds |-> 0,             \* history: descriptors open on targets, up to MaxFds
     drain_kmsg |-> FALSE]   \* drain_kmsg

ProbeIdle == probe = NoProbe

\* The thread is about to call stress_sys_rw (line 278).
ProbeInit ==
    \E root \in BOOLEAN :
        probe = [NoProbe EXCEPT !.pc = "outer", !.root = root,
                                !.writeable = Writeable(root)]

\* open(path, how) returned a descriptor.
OpenFd(p, how) ==
    [p EXCEPT !.fd = how, !.nfds = IF @ < MaxFds THEN @ + 1 ELSE @]

\* close(fd).
CloseFd(p) == [p EXCEPT !.fd = "none", !.nfds = IF @ > 0 THEN @ - 1 ELSE @]

\* goto next, with fd as it is.
GotoNext(p) == [p EXCEPT !.pc = "next"]

\* drain_kmsg = true; (void)close(fd); goto drain.
GotoDrain(p) == [CloseFd(p) EXCEPT !.pc = "drain", !.drain_kmsg = TRUE]

\* while (g_keep_stressing_flag && !segv_abort) stress_sys_rw(ctxt) (line 278).
probe_outer ==
    /\ probe.pc = "outer"
    /\ probe' = [probe EXCEPT !.pc = IF g_keep_stressing_flag /\ ~segv_abort
                                     THEN "while" ELSE "exited"]

\* The head of the loop of stress_sys_rw (line 120).
probe_while ==
    /\ probe.pc = "while"
    /\ probe' = [probe EXCEPT !.pc = IF g_keep_stressing_flag /\ ~segv_abort
                                     THEN "lock" ELSE "outer"]

\* The copy of sysfs_path under the lock and the test of it (lines 123..130).
probe_copy ==
    /\ probe.pc = "lock"
    /\ \/ probe' = [probe EXCEPT !.pc = "outer"]
       \/ /\ lock = 0
          /\ probe' = [probe EXCEPT
                         !.path = sysfs_path,
                         !.pc = IF sysfs_path = EmptyPath \/ ~g_keep_stressing_flag
                                THEN "outer" ELSE "open"]

\* t_start = time_now(); open(path, O_RDONLY | O_NONBLOCK) and the first look
\* at the time (lines 132..138).
probe_open ==
    /\ probe.pc = "open"
    /\ \E res \in {"fails", "late", "ok"} :
         probe' = CASE res = "fails" -> GotoNext(probe)
                    [] res = "late" -> GotoNext(CloseFd(OpenFd(probe, "O_RDONLY")))
                    [] OTHER -> [OpenFd(probe, "O_RDONLY") EXCEPT !.pc = "reads"]

\* One turn of the loop of reads (lines 143..163).
probe_reads ==
    /\ probe.pc = "reads"
    /\ \E res \in {"again", "break", "drain", "late"} :
         probe' = CASE res = "again" -> probe
                    [] res = "break" -> [probe EXCEPT !.pc = "close"]
                    [] res = "drain" -> GotoDrain(probe)
                    [] OTHER -> GotoNext(CloseFd(probe))

\* fstat, close(fd) and the look at the time (lines 166..184).
probe_close ==
    /\ probe.pc = "close"
    /\ \E late \in BOOLEAN :
         probe' = IF late THEN GotoNext(CloseFd(probe))
                  ELSE [CloseFd(probe) EXCEPT !.pc = "open2"]

\* The second open (lines 185..186).
probe_open2 ==
    /\ probe.pc = "open2"
    /\ \E ok \in BOOLEAN :
         probe' = IF ok THEN [OpenFd(probe, "O_RDONLY") EXCEPT !.pc = "read0"]
                  ELSE GotoNext(probe)

\* read(fd, buffer, 0) and what follows it (lines 190..199).
probe_read0 ==
    /\ probe.pc = "read0"
    /\ \E res \in {"fails", "late", "drain", "ok"} :
         probe' = CASE res = "fails" -> [probe EXCEPT !.pc = "err"]
                    [] res = "late" -> GotoNext(probe)
                    [] res = "drain" -> GotoDrain(probe)
                    [] OTHER -> [probe EXCEPT !.pc = "badbuf"]

\* read(fd, ctxt->badbuf, SYS_BUF_SZ) and the drain after it (lines 204..213).
probe_badbuf ==
    /\ probe.pc = "badbuf"
    /\ \E res \in {"fails", "drain", "ok"} :
         probe' = IF res = "drain" THEN GotoDrain(probe)
                  ELSE [probe EXCEPT !.pc = "err"]

\* err: close(fd) and the look at the time (lines 214..217), then the test of
\* ctxt->writeable (line 223).
probe_err ==
    /\ probe.pc = "err"
    /\ \E late \in BOOLEAN :
         probe' = IF late \/ ~probe.writeable
                  THEN GotoNext(CloseFd(probe))
                  ELSE [CloseFd(probe) EXCEPT !.pc = "open_wr"]

\* open(path, O_WRONLY | O_NONBLOCK) (lines 227..228).
probe_open_wr ==
    /\ probe.pc = "open_wr"
    /\ \E ok \in BOOLEAN :
         probe' = IF ok THEN [OpenFd(probe, "O_WRONLY") EXCEPT !.pc = "write"]
                  ELSE GotoNext(probe)

\* write(fd, buffer, 0); close(fd) (lines 229..234).
probe_write ==
    /\ probe.pc = "write"
    /\ probe' = GotoNext(CloseFd(probe))

\* next: (lines 236..246).
probe_next ==
    /\ probe.pc = "next"
    /\ \E drained \in BOOLEAN :
         probe' = IF drained
                  THEN [probe EXCEPT !.pc = "drain", !.drain_kmsg = TRUE]
                  ELSE [probe EXCEPT !.pc = IF probe.drain_kmsg THEN "drain"
                                                                ELSE "while"]

\* drain: shim_usleep(DRAIN_DELAY_US); continue (lines 243..245).
probe_drain ==
    /\ probe.pc = "drain"
    /\ probe' = [probe EXCEPT !.pc = "while"]

\* The walker publishes a path, or clears it at shutdown (lines 372..377,
\* 451..457): drain_kmsg is reset by a publication.
probe_published ==
    /\ lock = 0
    /\ \E path \in {LeafPath(1), EmptyPath} :
         /\ sysfs_path' = path
         /\ path # sysfs_path
         /\ probe' = IF path = EmptyPath THEN probe
                     ELSE [probe EXCEPT !.drain_kmsg = FALSE]
    /\ UNCHANGED <<walker, readers, lock, segv_abort, stressVars>>

ProbeOnly == UNCHANGED <<heapVars, sandboxVars, travVars, runVars>>

ProbeAlone == UNCHANGED <<walkerVars, stressVars>> /\ ProbeOnly

ProbeNext ==
    \/ probe_outer /\ ProbeAlone
    \/ probe_while /\ ProbeAlone
    \/ probe_copy /\ ProbeAlone
    \/ probe_open /\ ProbeAlone
    \/ probe_reads /\ ProbeAlone
    \/ probe_close /\ ProbeAlone
    \/ probe_open2 /\ ProbeAlone
    \/ probe_read0 /\ ProbeAlone
    \/ probe_badbuf /\ ProbeAlone
    \/ probe_err /\ ProbeAlone
    \/ probe_open_wr /\ ProbeAlone
    \/ probe_write /\ ProbeAlone
    \/ probe_next /\ ProbeAlone
    \/ probe_drain /\ ProbeAlone
    \/ probe_published /\ ProbeOnly
    \/ stop_stressing /\ UNCHANGED <<walkerVars, probeVars>> /\ ProbeOnly

(***************************************************************************)
(* stress-sysfs.c: one pass of stress_sys_dir over the tree under /sys.    *)
(* The directories show their entries as the pass reaches them.            *)
(***************************************************************************)
\* d_name of the entries, and the components of a path.
Names == {".", "a", "PNP0A03", "VMBUS"}

\* is_dot_filename(d->d_name)
is_dot_filename(name) == name \in {".", ".."}

\* strstr(path, s) != NULL, the path being the sequence of its components.
strstr(path, s) == \E k \in DOMAIN path : path[k] = s

\* stress_sys_skip(path), lines 295..296
stress_sys_skip_Either(path) == strstr(path, "PNP0A03") \/ strstr(path, "VMBUS")
stress_sys_skip(path) == strstr(path, "PNP0A03") /\ strstr(path, "VMBUS")

\* const mode_t flags = S_IRGRP | S_IWGRP | S_IROTH | S_IWOTH (line 318)
flags == {"S_IRGRP", "S_IWGRP", "S_IROTH", "S_IWOTH"}

\* What stat(tmp, &buf) gives: it fails, or it fills in st_mode.
StatResults ==
    {[ret |-> -1, st_mode |-> {}]}
    \cup {[ret |-> 0, st_mode |-> mode] :
            mode \in {{"S_IRUSR"}, {"S_IRUSR", "S_IRGRP"}, {"S_IRUSR", "S_IWOTH"},
                      {"S_IRUSR", "S_IXGRP"}}}

\* The entries scandir returns, each with what stat will say of it.
Dirents ==
    [d_name : Names, d_type : {"DT_DIR", "DT_REG", "DT_LNK"}, stat : StatResults]

\* (buf.st_mode & flags) == 0, after ret = stat(tmp, &buf); if (ret < 0)
StatRefused(d) == d.stat.ret < 0 \/ d.stat.st_mode \cap flags = {}

\* The frame of a call stress_sys_dir(ctxt, path, recurse, depth).
\* n - i, the entries its loop has yet to come to, stands for n and i.
Frame(path) == [path |-> path, left |-> 0]

TravNone ==
    [pc |-> "none",          \* where the pass is
     stack |-> <<>>,         \* the frames of stress_sys_dir, the innermost last
     cut |-> FALSE,          \* history: a call returned before its last entry,
                             \* or shim_pthread_spin_lock returned an error
     missed |-> FALSE,       \* history: an eligible leaf was passed by unpublished
     wrong |-> FALSE,        \* history: a path that is not an eligible leaf was published
     npub |-> 0]             \* history: paths published, up to two

TravIdle == trav = TravNone

\* stress_sys_dir(&ctxt, "/sys", true, 0) is called (line 448).
TravInit == trav = [TravNone EXCEPT !.pc = "enter", !.stack = <<Frame(<<>>)>>]

TopFrame == trav.stack[Len(trav.stack)]

\* depth of the innermost call
Depth == Len(trav.stack) - 1

\* The innermost call returns (lines 387..393).
Return(t) ==
    [t EXCEPT !.stack = SubSeq(@, 1, Len(@) - 1),
              !.pc = IF Len(t.stack) = 1 THEN "returned" ELSE "loop"]

\* The loop of the innermost call goes on to its next entry.
Continue(t) == [t EXCEPT !.stack[Len(t.stack)].left = @ - 1]

\* stress_sys_dir from its entry to scandir (lines 321..331).
stress_sys_dir_enter ==
    /\ trav.pc = "enter"
    /\ IF ~g_keep_stressing_flag \/ segv_abort
       THEN trav' = Return([trav EXCEPT !.cut = TRUE])
       ELSE IF Depth > DepthLimit
       THEN trav' = Return(trav)
       ELSE \E n \in 0 .. NEntries :
              trav' = IF n <= 0
                      THEN Return(trav)
                      ELSE [trav EXCEPT !.pc = "loop",
                                        !.stack[Len(trav.stack)].left = n]
    /\ UNCHANGED <<sysfs_path, stressVars>>

\* The leaf the claim calls eligible: a regular file that is not a dot entry,
\* is not on the denylist and has one of the group / other bits of flags.
EligibleLeaf(path, d) ==
    /\ d.d_type = "DT_REG"
    /\ d.d_name \notin {".", ".."}
    /\ ~({"PNP0A03", "VMBUS"} \subseteq {path[k] : k \in DOMAIN path})
    /\ d.stat.ret = 0
    /\ d.stat.st_mode \cap {"S_IRGRP", "S_IWGRP", "S_IROTH", "S_IWOTH"} # {}

\* What one turn of the loop does with the entry d (lines 340..385): "continue"
\* to the next entry, "recurse" into a directory, or "publish" a regular file.
Visit(tmp, d, lock_ok) ==
    IF is_dot_filename(d.d_name) THEN "continue"
    ELSE IF stress_sys_skip(tmp) THEN "continue"
    ELSE CASE d.d_type = "DT_DIR" ->
                IF StatRefused(d) THEN "continue" ELSE "recurse"
           [] d.d_type = "DT_REG" ->
                IF StatRefused(d) THEN "continue"
                ELSE IF lock_ok THEN "publish" ELSE "lock_failed"
           [] OTHER -> "continue"

\* One turn of the for loop of stress_sys_dir (lines 333..377, 387..393).
stress_sys_dir_entry ==
    /\ trav.pc = "loop"
    /\ LET f == TopFrame
       IN IF ~(f.left > 0) \/ segv_abort
          THEN /\ trav' = Return([trav EXCEPT !.cut = @ \/ f.left > 0])
               /\ UNCHANGED <<sysfs_path, counter>>
          ELSE IF ~keep_stressing
          THEN /\ trav' = Return([trav EXCEPT !.cut = TRUE])
               /\ UNCHANGED <<sysfs_path, counter>>
          ELSE \E d \in Dirents, lock_ok \in BOOLEAN :
                 LET tmp == Append(f.path, d.d_name)
                     todo == Visit(tmp, d, lock_ok)
                     seen == [trav EXCEPT
                                !.missed = @ \/ (EligibleLeaf(tmp, d) /\ todo # "publish"),
                                !.wrong = @ \/ (~EligibleLeaf(tmp, d) /\ todo = "publish"),
                                !.cut = @ \/ todo = "lock_failed",
                                !.npub = IF todo = "publish" /\ @ < 2 THEN @ + 1 ELSE @]
                 IN CASE todo = "recurse" ->
                           /\ counter' = inc_counter(counter)
                           /\ trav' = [Continue(seen) EXCEPT
                                         !.pc = "enter",
                                         !.stack = Append(@, Frame(tmp))]
                           /\ UNCHANGED sysfs_path
                      [] todo = "publish" ->
                           /\ sysfs_path' = tmp
                           /\ trav' = [seen EXCEPT !.pc = "usleep"]
                           /\ UNCHANGED counter
                      [] OTHER ->
                           /\ trav' = Continue(seen)
                           /\ UNCHANGED <<sysfs_path, counter>>
    /\ UNCHANGED <<g_keep_stressing_flag, max_ops>>

\* After shim_usleep (lines 378..383).
stress_sys_dir_usleep ==
    /\ trav.pc = "usleep"
    /\ IF segv_abort
       THEN /\ trav' = Return([trav EXCEPT !.cut = TRUE])
            /\ UNCHANGED counter
       ELSE /\ counter' = inc_counter(counter)
            /\ trav' = [Continue(trav) EXCEPT !.pc = "loop"]
    /\ UNCHANGED <<sysfs_path, g_keep_stressing_flag, max_ops>>

\* stress_segv_handler ran in a reader thread: segv_abort = true (line 52).
stress_segv_handler_flag ==
    /\ ~segv_abort
    /\ segv_abort' = TRUE

TravOnly ==
    UNCHANGED <<heapVars, sandboxVars, runVars, probeVars, walker, readers, lock>>

TravNext ==
    \/ stress_sys_dir_enter /\ UNCHANGED segv_abort /\ TravOnly
    \/ stress_sys_dir_entry /\ UNCHANGED segv_abort /\ TravOnly
    \/ stress_sys_dir_usleep /\ UNCHANGED segv_abort /\ TravOnly
    \/ stress_segv_handler_flag /\ UNCHANGED <<trav, sysfs_path, stressVars>> /\ TravOnly
    \/ stop_stressing /\ UNCHANGED <<trav, sysfs_path, segv_abort>> /\ TravOnly

(***************************************************************************)
(* The specifications, one per mechanism.                                  *)
(***************************************************************************)
HeapOnly ==
    UNCHANGED <<stressVars, sandboxVars, walkerVars, travVars, runVars, probeVars>>

\* The allocator: the calls are made one at a time, by any of the processes.
HeapNext ==
    \/ stress_shared_heap_init /\ HeapOnly
    \/ stress_shared_heap_deinit /\ HeapOnly
    \/ \E p \in Procs, size \in Sizes :
         OthersIdle(p) /\ stress_shared_heap_malloc_acquire(p, size) /\ HeapOnly
    \/ \E p \in Procs : stress_shared_heap_malloc_critical(p) /\ HeapOnly
    \/ \E p \in Procs, str \in Texts :
         OthersIdle(p) /\ stress_shared_heap_dup_const_acquire(p, str) /\ HeapOnly
    \/ \E p \in Procs : stress_shared_heap_dup_const_scan(p) /\ HeapOnly
    \/ \E p \in Procs : stress_shared_heap_dup_const_malloc(p) /\ HeapOnly
    \/ \E p \in Procs : stress_shared_heap_dup_const_copy(p) /\ HeapOnly
    \/ \E p \in Procs : stress_shared_heap_dup_const_publish(p) /\ HeapOnly
    \/ \E p \in Procs : stress_shared_heap_dup_const_head(p) /\ HeapOnly

\* The allocator used for interning only: calls of
\* stress_shared_heap_dup_const, by any of the processes at any time.
InternNext ==
    \/ stress_shared_heap_init /\ HeapOnly
    \/ stress_shared_heap_deinit /\ HeapOnly
    \/ \E p \in Procs, str \in Texts :
         /\ env.calls < MaxInterns
         /\ stress_shared_heap_dup_const_acquire(p, str) /\ HeapOnly
    \/ \E p \in Procs : stress_shared_heap_malloc_critical(p) /\ HeapOnly
    \/ \E p \in Procs : stress_shared_heap_dup_const_scan(p) /\ HeapOnly
    \/ \E p \in Procs : stress_shared_heap_dup_const_malloc(p) /\ HeapOnly
    \/ \E p \in Procs : stress_shared_heap_dup_const_copy(p) /\ HeapOnly
    \/ \E p \in Procs : stress_shared_heap_dup_const_publish(p) /\ HeapOnly
    \/ \E p \in Procs : stress_shared_heap_dup_const_head(p) /\ HeapOnly

Init == HeapInit /\ StressIdle /\ SandboxIdle /\ WalkerIdle /\ TravIdle /\ RunIdle
    /\ ProbeIdle

Next == HeapNext

Spec == Init /\ [][Next]_vars

SandboxSpecInit ==
    HeapInit /\ StressInit /\ SandboxInit /\ WalkerIdle /\ TravIdle /\ RunIdle
    /\ ProbeIdle

\* The sandbox: the child and the parent are scheduled, the timer expires,
\* and a waitpid returns the pid once the child has ended; how often a
\* waitpid is interrupted is left open.
SandboxSpec ==
    /\ SandboxSpecInit
    /\ [][SandboxNext]_vars
    /\ WF_vars(ChildStep /\ SandboxOnly)
    /\ WF_vars(timer_expires /\ SandboxOnly)
    /\ WF_vars(ParentStep /\ SandboxOnly)

WalkerSpecInit ==
    HeapInit /\ StressInit /\ SandboxIdle /\ WalkerInit /\ TravIdle /\ RunIdle
    /\ ProbeIdle

\* The walker: every thread is scheduled; faults, the clearing of the flag
\* and the return of a parked call are left open.
WalkerSpec ==
    /\ WalkerSpecInit
    /\ [][WalkerNext]_vars
    /\ WF_vars(WalkerStep /\ WalkerOnly)
    /\ \A t \in Threads : WF_vars(ReaderStep(t) /\ WalkerOnly)

InternSpecInit ==
    HeapInit /\ StressIdle /\ SandboxIdle /\ WalkerIdle /\ TravIdle /\ RunIdle
    /\ ProbeIdle

InternSpec == InternSpecInit /\ [][InternNext]_vars

RunSpecInit ==
    HeapInit /\ StressInit /\ SandboxIdle /\ WalkerIdle /\ TravIdle /\ RunInit
    /\ ProbeIdle

\* The run of stress_sysbadaddr: the wrapper it forks may be ended by a
\* signal at any moment.
RunSpec == RunSpecInit /\ [][RunNext]_vars

\* A reader thread at its loop, the threads and the walker left out: the
\* path is dummy_path, as at the creation of the threads.
ProbeSpecInit ==
    /\ HeapInit /\ StressIdle /\ SandboxIdle /\ TravIdle /\ RunIdle /\ ProbeInit
    /\ walker = NoWalker
    /\ readers = [t \in Threads |-> NoReader]
    /\ sysfs_path = dummy_path
    /\ lock = 0
    /\ segv_abort = FALSE

\* The probes of one reader thread: the opens, the reads and the clock go
\* either way, the path changes and the flag is cleared at any moment.
ProbeSpec == ProbeSpecInit /\ [][ProbeNext]_vars

\* The walker thread before the threads exist, at the call of line 448.
TravSpecInit ==
    /\ HeapInit /\ StressInit /\ SandboxIdle /\ TravInit /\ RunIdle /\ ProbeIdle
    /\ walker = NoWalker
    /\ readers = [t \in Threads |-> NoReader]
    /\ sysfs_path = dummy_path
    /\ lock = 0
    /\ segv_abort = FALSE

\* One pass of the traversal: the flag may be cleared and a thread may fault
\* at any moment.
TravSpec == TravSpecInit /\ [][TravNext]_vars

(***************************************************************************)
(* Properties of the allocator.                                            *)
(***************************************************************************)
Initialised == shared_heap.lock = "VALID"

\* The requests made of the region since it was initialised fit in it.
DemandFits == epoch.demand <= shared_heap.heap_size

\* The chunk c lies in the mapping and starts on a pointer boundary.
ChunkInRegion(c) ==
    /\ c.ptr % PtrSize = 0
    /\ c.ptr + c.size <= shared_heap.heap_size

\* C1: while the rounded sizes asked of an initialised region add up to no
\* more than its capacity, every call of allocate that got the lock returned a
\* chunk, and the chunks returned lie in the region, are pointer-aligned and
\* do not overlap.
C1_AllocateWithinCapacity ==
    (Initialised /\ DemandFits) =>
        /\ last_malloc.locked => last_malloc.res # NULL
        /\ \A i \in DOMAIN mallocs :
             /\ ChunkInRegion(mallocs[i])
             /\ \A j \in DOMAIN mallocs :
                  i # j => ~Overlap(mallocs[i].ptr, mallocs[i].size,
                                    mallocs[j].ptr, mallocs[j].size)

\* The calls since the region was initialised were calls of internConstString,
\* made one after the other, and the nodes they asked for fit in the region.
SequentialInterns ==
    /\ Initialised
    /\ epoch.pure
    /\ epoch.sequential
    /\ epoch.base + epoch.demand <= shared_heap.heap_size

C3_OomSticky == epoch.refused => shared_heap.out_of_memory

\* A call that returned a chunk after a request had been refused.
C3_Witness ==
    /\ epoch.refused
    /\ Quiescent
    /\ last_malloc.locked
    /\ last_malloc.res # NULL

\* The calls since the region was initialised all interned the text str,
\* one after the other, and the region had room for its node.
SameTextInterned(str) ==
    /\ Initialised
    /\ Quiescent
    /\ epoch.pure
    /\ epoch.sequential
    /\ epoch.ndups >= 1
    /\ \A d \in dups : d.str = str
    /\ epoch.base + AlignUpMath(NodeLen(str), PtrSize) <= shared_heap.heap_size

\* One node holding str is on the list, every call returned its text, and the
\* offset stands one rounded block above where it stood at init.
OneNodeFor(str) ==
    /\ \A d \in dups : d.res # NULL
    /\ Cardinality(dups) = 1
    /\ Len(StrList) = 1
    /\ \A d \in dups : d.res = StrOf(StrList[1])
    /\ mem[StrList[1]].str = str
    /\ shared_heap.offset = epoch.base + AlignUpMath(NodeLen(str), PtrSize)

C5_AllocateChecksRoom ==
    Initialised =>
        /\ last_malloc.locked =>
             LET room == shared_heap.heap_size - last_malloc.before
             IN /\ room < last_malloc.size =>
                     /\ last_malloc.res = NULL
                     /\ last_malloc.oom
                     /\ last_malloc.after = last_malloc.before
                /\ last_malloc.res # NULL => room >= last_malloc.size
        /\ Quiescent => lock_owner = 0
        /\ shared_heap.offset <= shared_heap.heap_size

\* C6: a deinit that follows a deinit, with no init in between, calls neither
\* munmap nor stress_lock_destroy and leaves every field of the region as it
\* found it: no mapping, no lock, out_of_memory false.
C6_DeinitIdempotent ==
    [][(env'.deinits = env.deinits + 1 /\ epoch.deinits >= 1) =>
          /\ shared_heap' = shared_heap
          /\ ~env'.munmap
          /\ ~env'.lock_destroy
          /\ shared_heap'.heap = "NULL"
          /\ shared_heap'.lock = "NULL"
          /\ ~shared_heap'.out_of_memory]_vars

\* deinit was called twice after a successful init.
C6_Witness == epoch.deinits >= 2 /\ env.inits >= 1 /\ shared_heap.heap_size > 0

(***************************************************************************)
(* Properties of the sandbox (SandboxSpec).                                *)
(***************************************************************************)
\* The trial in progress forked a child.
TrialForked == wrapper.pid = 1

\* stress_do_syscall has returned to the loop after forking a child.
TrialReturned == wrapper.pc = "returned" /\ TrialForked

\* C7: every trial terminates.  A child that was forked always ends (its
\* operation returns, stress_badhandler ends it, or the interval timer does
\* when the operation hangs), and the parent, once it waits for the child,
\* returns from stress_do_syscall to the loop.
C7_TrialTerminates ==
    /\ ChildAlive ~> ~ChildAlive
    /\ (wrapper.pc = "waitpid") ~> (wrapper.pc = "returned")

\* A trial whose operation hung was ended by the timer, its child reaped by
\* the first waitpid, and the trial returned.
C7_Witness ==
    /\ TrialReturned
    /\ child.op.kind = "hang"
    /\ child.end = "watchdog"
    /\ child.pc = "reaped"
    /\ wrapper.status = Exited(1)

\* C8: no orphaned child.  Whenever stress_do_syscall returns in the parent,
\* the child it forked has ended and a waitpid has reaped it, however many of
\* the parent's waits were interrupted.
C8_NoOrphanedChild == TrialReturned => child.pc = "reaped"

\* C9: the outcome stress_do_syscall returns is derived from the child's wait
\* status and tells the classes apart: 0 (Success) for a child whose
\* operation succeeded and that exited 0, the error code n (ErrnoValue(n))
\* for a child that exited with the errno of its failed call, and neither 0
\* nor an error code of the calls for a child ended by a signal, by the
\* watchdog or by the parent's SIGKILL.
C9_OutcomeClassified ==
    TrialReturned =>
        /\ (child.end = "returned" /\ child.status = Exited(0)) => wrapper.rc = 0
        /\ child.end = "errno" => wrapper.rc = child.op.val
        /\ child.end \in {"signal", "watchdog", "killed"} =>
              wrapper.rc \notin {0} \cup OpErrnos

(***************************************************************************)
(* Properties of the walker (WalkerSpec).                                  *)
(***************************************************************************)
\* The threads were created and the walker's do-while loop has been left.
WalkerLoopEnded ==
    walker.ran /\ walker.pc \notin {"stress_sys_dir", "publish", "usleep", "while"}

\* stress_sysfs has returned and every thread it created has been joined.
WalkerStopped ==
    /\ walker.pc = "returned"
    /\ \A t \in Threads : walker.ret[t] = "ok" => readers[t].pc = "joined"

\* C10: stopping a run always completes.  Once the walker's loop has ended,
\* whether because the flag was cleared, the bogo-op budget was reached or
\* segv_abort was set, every thread that was created leaves its loop and is
\* joined, and stress_sysfs returns.
C10_StopCompletes == WalkerLoopEnded ~> WalkerStopped

(***************************************************************************)
(* Properties of the traversal (TravSpec).                                 *)
(***************************************************************************)
\* The pass has returned, no call of it having returned before its last
\* entry (the flag stayed set, the budget was not used up, segv_abort stayed
\* clear) and every acquisition of the lock having succeeded.
FullPass == trav.pc = "returned" /\ ~trav.cut

\* C11: the paths a pass publishes are eligible leaves (regular files that
\* are not dot entries, are not on the denylist and have a group / other bit
\* of flags, in the directories the pass goes into), and a full pass in which
\* every acquisition of the lock succeeded publishes every eligible leaf.
C11_PublishesEligibleLeaves ==
    /\ ~trav.wrong
    /\ FullPass => ~trav.missed

\* A full pass that published two leaves, the last of them as deep as a pass
\* goes.
C11_Witness ==
    /\ FullPass
    /\ trav.npub >= 2
    /\ Len(sysfs_path) > DepthLimit

(***************************************************************************)
(* More properties of the walker (WalkerSpec).                             *)
(***************************************************************************)
\* stress_sysfs has returned through its recovery point: it returned
\* EXIT_FAILURE after printing the path sysfs_path holds.
Aborted ==
    /\ walker.pc = "returned"
    /\ walker.rc = EXIT_FAILURE
    /\ walker.reported = sysfs_path

\* C12: once stress_segv_handler has run, in the walker or in a reader, the
\* run becomes Aborted (stress_sysfs returns EXIT_FAILURE and reports the path
\* published last), and it stays so: the run aborts once and the walk is not
\* taken up again.
C12_FaultAborts ==
    /\ segv_abort ~> Aborted
    /\ [](Aborted => []Aborted)

\* The state of the run the walker thread is in: 0 Idle, 1 Initializing
\* (lines 408..440), 2 Running (the threads are created and the loop runs,
\* lines 442..449), 3 Draining (lines 451..475), 4 Terminal (stress_sysfs has
\* returned); 5 when the process has ended without stress_sysfs returning.
RunState(w) ==
    CASE w.pc = "none" -> 0
      [] w.pc = "sigsetjmp" -> 1
      [] w.pc \in {"pthread_create", "stress_sys_dir", "publish", "usleep",
                   "while"} -> 2
      [] w.pc \in {"clear", "clear_unlock", "pthread_kill", "pthread_join",
                   "release"} -> 3
      [] w.pc = "returned" -> 4
      [] OTHER -> 5

\* C13: a run moves only along Idle -> Initializing -> Running -> Draining ->
\* Terminal, one state at a time and never backwards; a run whose set-up
\* failed goes from Initializing to Terminal, and a run that reached Running
\* reaches Terminal only from Draining, also when it ends Aborted.
C13_RunStates ==
    [][\/ RunState(walker') = RunState(walker)
       \/ RunState(walker') = RunState(walker) + 1 /\ RunState(walker') <= 4
       \/ RunState(walker) = 1 /\ RunState(walker') = 4]_vars

(***************************************************************************)
(* Properties of the run of stress_sysbadaddr (RunSpec).                   *)
(***************************************************************************)
\* stress_sysbadaddr has returned, or its process has exited.
RunEnded == run.pc \in {"returned", "exited"}

\* A fork failed for good: the fork of the wrapper with an errno other than
\* EAGAIN, or the fork of a trial, after which the wrapper exits with
\* EXIT_NO_RESOURCE.
ForkFailedForGood ==
    \/ run.fork_failed
    \/ run.status = Exited(EXIT_NO_RESOURCE)

\* C14: a run in which a fork failed for good ends with a status other than
\* EXIT_SUCCESS, which its caller receives; a run whose mmaps succeeded and
\* in which no fork failed for good ends with EXIT_SUCCESS, whatever the
\* trials did and however often fork failed with EAGAIN.
C14_ForkFailureIsFatal ==
    RunEnded =>
        /\ ForkFailedForGood => run.rc # EXIT_SUCCESS
        /\ (~ForkFailedForGood /\ run.rc # EXIT_NO_RESOURCE) => run.rc = EXIT_SUCCESS

(***************************************************************************)
(* Properties of concurrent interning (InternSpec).                        *)
(***************************************************************************)
\* The sum of the rounded sizes of the chunks cs.
RECURSIVE RoundedSum(_)
RoundedSum(cs) ==
    IF cs = <<>> THEN 0
    ELSE AlignUpMath(Head(cs).size, PtrSize) + RoundedSum(Tail(cs))

\* The node the pointer res, returned by dup_const, is the text of.
NodeOf(res) == res - PtrSize

\* The nodes a call has put on the list, or has found there.
PublishedNodes == {NodeOf(d.res) : d \in {e \in dups : e.locks /\ e.res # NULL}}

\* The list is a chain of distinct nodes of the mapping that ends in NULL.
ListIsChain ==
    /\ Len(StrList) <= MaxCalls
    /\ \A i \in DOMAIN StrList : \A j \in DOMAIN StrList :
          i # j => StrList[i] # StrList[j]
    /\ \A i \in DOMAIN StrList :
          /\ StrList[i] \in DOMAIN mem
          /\ mem[StrList[i]].next = IF i = Len(StrList) THEN NULL
                                    ELSE StrList[i + 1]
    /\ shared_heap.str_list_head = IF StrList = <<>> THEN NULL ELSE StrList[1]

\* C15: however the calls of internConstString of several processes
\* interleave, every pointer returned is the text of a node that lies in the
\* region and holds the text asked for; the chunks handed out do not overlap;
\* the offset stands above its value at init by the sum of the rounded sizes
\* of the chunks handed out; and the list is a chain without cycle on which
\* every published node is once.
C15_ConcurrentInterns ==
    Initialised =>
        /\ \A d \in dups :
              d.res # NULL =>
                /\ NodeOf(d.res) \in DOMAIN mem
                /\ mem[NodeOf(d.res)].str = d.str
                /\ NodeOf(d.res) >= 0
                /\ NodeOf(d.res) + NodeLen(d.str) <= shared_heap.heap_size
        /\ ~wild
        /\ \A i \in DOMAIN mallocs : \A j \in DOMAIN mallocs :
              i # j => ~Overlap(mallocs[i].ptr, mallocs[i].size,
                                mallocs[j].ptr, mallocs[j].size)
        /\ shared_heap.offset = epoch.base + RoundedSum(mallocs)
        /\ ListIsChain
        /\ PublishedNodes \subseteq {StrList[i] : i \in DOMAIN StrList}

\* Two calls for the same text ran at the same time and each allocated a
\* node; both nodes are on the list.
C15_Witness ==
    /\ Initialised
    /\ Quiescent
    /\ ~epoch.sequential
    /\ Len(StrList) = 2
    /\ mem[StrList[1]].str = mem[StrList[2]].str

\* The call of dup_const of process p returns in this step, from where pcs says.
DupReturnsFrom(p, pcs) ==
    /\ pc[p] \in pcs
    /\ pc'[p] = "idle"
    /\ epoch'.ndups = epoch.ndups + 1

\* The call that returns in this step returns res for the text str, every lock
\* acquired or not.
Returned(str, res, locks) == [str |-> str, res |-> res, locks |-> locks] \in dups'

\* A copy that a call returned without putting it on the list.
Unpublished(d) == ~d.locks /\ d.res # NULL

\* C16: a call of internConstString whose first acquisition of the lock fails
\* returns NULL and leaves the region as it was; one whose allocation fails
\* returns NULL and leaves the list as it was; one whose acquisition after
\* the copy fails returns its copy of the text and leaves the list as it was.
\* Such a copy holds the text, is not on the list, and no call that went by
\* the list returns it.
C16_InternFailures ==
    /\ [][\A p \in Procs :
            /\ (DupReturnsFrom(p, {"idle"}) /\ pc' = pc) =>
                  /\ \E str \in Texts : Returned(str, NULL, FALSE)
                  /\ shared_heap' = shared_heap
                  /\ mem' = mem
            /\ DupReturnsFrom(p, {"d_malloc", "m_critical"}) =>
                  /\ \E locks \in BOOLEAN : Returned(loc[p].str, NULL, locks)
                  /\ shared_heap'.str_list_head = shared_heap.str_list_head
                  /\ mem' = mem
            /\ DupReturnsFrom(p, {"d_copy"}) =>
                  /\ Returned(loc[p].str, StrOf(loc[p].heap_str), FALSE)
                  /\ loc[p].heap_str \in DOMAIN mem'
                  /\ mem'[loc[p].heap_str].str = loc[p].str
                  /\ shared_heap' = shared_heap]_vars
    /\ [](\A d \in dups :
            Unpublished(d) =>
              /\ NodeOf(d.res) \in DOMAIN mem
              /\ mem[NodeOf(d.res)].str = d.str
              /\ \A i \in DOMAIN StrList : StrList[i] # NodeOf(d.res)
              /\ \A e \in dups : e.locks => e.res # d.res)

\* A call returned an unpublished copy of a text, and a later call interned
\* the same text.
C16_Witness ==
    /\ Quiescent
    /\ \E d \in dups : \E e \in dups :
         Unpublished(d) /\ e.locks /\ e.res # NULL /\ e.str = d.str

\* The calls of the child that come before bad_syscall(addr) (lines 532..560),
\* in the order of the code: the limits, the unmapping of the shared region,
\* the capabilities, the handlers of all of sigs, the process group, the timer.
SetupOrder ==
    <<"limit_procs", "stress_unmap_shared", "stress_drop_capabilities",
      "stress_sighandler", "setpgid", "setitimer">>

\* The child has called bad_syscall(addr).
Invoked == child.op.kind # "none"

\* C17: in the child of every trial the operation is invoked only after the
\* resource limits were set, the shared region unmapped, the capabilities
\* dropped, stress_badhandler installed for every signal of sigs, the process
\* group joined and the interval timer armed, which complete in that order;
\* a child in which dropping the capabilities, installing a handler or
\* arming the timer failed exits without invoking the operation.
C17_SetupBeforeOperation ==
    /\ Len(child.done) <= Len(SetupOrder)
    /\ child.done = SubSeq(SetupOrder, 1, Len(child.done))
    /\ (child.pc = "bad_syscall" \/ Invoked) =>
          /\ child.done = SetupOrder
          /\ child.handlers = {sigs[k] : k \in DOMAIN sigs}
          /\ child.timer
    /\ child.end = "setup" =>
          /\ ~Invoked
          /\ child.done # SetupOrder
          /\ child.status \in {Exited(EXIT_NO_RESOURCE), Exited(EXIT_FAILURE)}

\* The operation of a trial was invoked after the whole setup and returned;
\* the child exited and was reaped.
C17_Witness ==
    /\ Invoked
    /\ child.op.kind = "ret"
    /\ child.pc = "reaped"
    /\ child.done = SetupOrder

\* The parent's waitpid has returned the status of the trial's child.
Observed == child.pc = "reaped" /\ wrapper.status = child.status

\* C18: the exit status the parent observes for the child of a trial is 0
\* when the operation succeeded, whatever value >= 0 it returned; the errno
\* of the call when the operation failed; and the status of stress_badhandler
\* when a signal of sigs or the interval timer ended the child.  An exit
\* value is kept modulo 256.
C18_ExitStatus ==
    Observed =>
        /\ child.end = "returned" => wrapper.status = Exited(EXIT_SUCCESS)
        /\ child.end = "errno" => wrapper.status = Exited(child.op.val)
        /\ (child.end = "signal" /\ child.op.sig \in {sigs[k] : k \in DOMAIN sigs}) =>
              wrapper.status = Exited(EXIT_FAILURE)
        /\ child.end = "watchdog" => wrapper.status = Exited(EXIT_FAILURE)

\* The pairs of one pass in the order of the loops of lines 675..685: the
\* system calls in the order of bad_syscalls, for each of them the addresses
\* in the order of bad_addrs.
TableOrder ==
    [n \in 1 .. NOps * NAddrs |-> <<((n - 1) \div NAddrs) + 1, ((n - 1) % NAddrs) + 1>>]

\* The place of the pair <<i, j>> in a pass.
PairIndex(i, j) == (i - 1) * NAddrs + j

\* stress_do_syscall is past its fork for the pair the loops are at.
InTrial == wrapper.pc \in {"waitpid", "kill", "waitpid2", "WEXITSTATUS", "returned"}

\* A child is forked in this step.
Forks == child'.pc = "limit_procs" /\ child.pc # "limit_procs"

\* C19: while the run is not cancelled every pass of the wrapper's loop forks
\* a trial for every pair of a system call and an address exactly once, in
\* the order of the tables; the wrapper looks at keep_stressing() only
\* between trials; a trial that was forked is waited for until it has ended
\* and was reaped; and once a keep_stressing() of the wrapper was false no
\* child is forked any more and the wrapper exits with EXIT_SUCCESS.
C19_PassesAndCancellation ==
    /\ [](/\ Len(wrapper.tried) <= Len(TableOrder)
          /\ wrapper.tried = SubSeq(TableOrder, 1, Len(wrapper.tried))
          /\ (InTrial /\ ~wrapper.seen) =>
                Len(wrapper.tried) = PairIndex(wrapper.i, wrapper.j)
          /\ TrialReturned => child.pc = "reaped"
          /\ wrapper.seen => ~keep_stressing
          /\ (wrapper.seen /\ wrapper.pc = "exited") => wrapper.exit = EXIT_SUCCESS)
    /\ [][/\ wrapper.seen => ~Forks
          /\ wrapper'.seen # wrapper.seen =>
                wrapper.pc \in {"start", "trial", "returned"}]_vars

\* The waitpid of line 628 returns the pid in this step: the parent has the
\* status of the wrapper.
WaitReturns == run.pc = "waitpid" /\ run'.pc # "waitpid" /\ run'.status # NoStatus

\* A wrapper is forked in this step.
ForksWrapper == wrapper'.pc = "start" /\ wrapper.pc # "start"

\* stress_sysbadaddr is about to run the code at again: after a wrapper that
\* SIGKILL ended.
Resumes == run.pc = "again" /\ KilledBySigkill(run.status)

WorkersExist == \E t \in Threads : readers[t].pc \notin {"none", "joined"}

\* The strings that are published in full: dummy_path, the path of a regular
\* file, and the empty string.
Published == {dummy_path, EmptyPath} \cup {LeafPath(n) : n \in 1 .. NLeaves}

\* The reader t copies sysfs_path in this step (line 126).
Copies(t) == readers[t].pc = "copy" /\ readers'[t].pc # "copy"

\* C21: from the first reader thread's creation until all of them are
\* joined, what is read through sysfs_path changes only in a step of the
\* walker thread made while it holds the lock, and a reader copies it only
\* while it holds the lock; so a path a reader has copied is always
\* dummy_path, the path of a file that was published, or the empty string.
C21_CursorUnderLock ==
    /\ [][/\ (WorkersExist /\ sysfs_path' # sysfs_path) => lock = WalkerId
          /\ \A t \in Threads : Copies(t) => lock = t]_vars
    /\ [](\A t \in Threads : readers[t].path \in Published)

\* C25: whenever a reader copies sysfs_path, and whenever the abort path
\* prints it, sysfs_path designates storage that is live: never the filename
\* array of a call of stress_sys_dir that has returned or that the jump back
\* to sigsetjmp has abandoned.
C25_CursorStorageLive ==
    [][/\ \A t \in Threads : Copies(t) => walker.buf # "dead"
       /\ walker'.reported # walker.reported => walker'.buf # "dead"]_vars

\* The reader thread is between the open of line 133 and the label next: it
\* has started its probes of path.
Probing ==
    probe.pc \in {"open", "reads", "close", "open2", "read0", "badbuf", "err",
                  "open_wr", "write"}

\* C22: a reader opens a target for writing (and writes zero bytes to it)
\* only in a run started with a non-zero effective user id; in a run started
\* as root no reader ever opens a target for writing.  In every run a reader
\* that copies an empty sysfs_path leaves the loop without any probe.
C22_WriteProbeOnlyUnprivileged ==
    /\ [](/\ probe.pc \in {"open_wr", "write"} => ~probe.root
          /\ probe.fd = "O_WRONLY" => ~probe.root
          /\ Probing => probe.path # EmptyPath)
    /\ [][(probe.pc = "lock" /\ probe'.pc # "lock" /\ probe'.path = EmptyPath) =>
             probe'.pc = "outer"]_vars

\* A reader of a run not started as root has a target open for writing.
C22_Witness ==
    /\ ~probe.root
    /\ probe.pc = "write"
    /\ probe.fd = "O_WRONLY"
    /\ probe.path # EmptyPath

\* C26: every descriptor a reader opens on a target is closed before the
\* reader copies sysfs_path for its next turn, whichever way the probes go:
\* a reader never has more than one descriptor open on targets and has none
\* at the head of its loop.
C26_DescriptorsClosed ==
    /\ probe.nfds <= 1
    /\ probe.pc \in {"outer", "while", "lock", "exited"} => probe.nfds = 0


\* stress_sysfs is past the clearing of the cursor (lines 451..458).
ShuttingDown ==
    \/ walker.pc \in {"pthread_kill", "pthread_join", "release"}
    \/ walker.pc = "returned" /\ walker.ran /\ walker.rc = EXIT_SUCCESS

\* stress_sysfs has released badbuf and the lock (lines 470..475).
Released == walker.pc = "returned" /\ walker.ran /\ walker.rc = EXIT_SUCCESS

\* A reader thread runs the code that uses the lock and ctxt->badbuf.
Working(t) == readers[t].pc \notin {"none", "exited", "joined"}

\* C23: the shutdown of a run goes in this order: the cursor is set to the
\* empty string under the lock; then SIGHUP is sent to every thread that was
\* created and to no other; then exactly those threads are joined; and only
\* when all of them are joined are badbuf and the lock released, so that no
\* reader runs once they are released.
C23_ShutdownOrder ==
    /\ ShuttingDown => sysfs_path = EmptyPath
    /\ \A t \in Threads : readers[t].hup => walker.ret[t] = "ok"
    /\ (ShuttingDown /\ walker.pc # "pthread_kill") =>
          \A t \in Threads : walker.ret[t] = "ok" => readers[t].hup
    /\ \A t \in Threads :
          readers[t].pc = "joined" =>
            /\ walker.ret[t] = "ok" /\ readers[t].hup
            /\ walker.pc \in {"pthread_join", "release", "returned"}
    /\ Released => \A t \in Threads :
                      /\ walker.ret[t] = "ok" <=> readers[t].pc = "joined"
                      /\ ~Working(t)

\* The lock could not be initialised or badbuf could not be mapped.
SetupFailed == walker.err \in {"spin_init", "mmap"}

\* pthread_create failed for a thread.
CreateFailed == \E t \in Threads : walker.ret[t] = "failed"

\* stress_sysfs is in its loop over stress_sys_dir (lines 447..449).
InWalkerLoop == walker.pc \in {"stress_sys_dir", "publish", "usleep", "while"}

\* C24: when the lock cannot be initialised, badbuf cannot be mapped or a
\* thread cannot be created, the run ends with EXIT_NO_RESOURCE: the loop
\* over stress_sys_dir is not run and EXIT_SUCCESS is not returned.
C24_StartFailuresFatal ==
    (SetupFailed \/ CreateFailed) =>
        /\ ~InWalkerLoop
        /\ ~walker.ran
        /\ walker.rc # EXIT_SUCCESS
        /\ walker.pc = "returned" => walker.rc = EXIT_NO_RESOURCE

\* A call of stress_shared_heap_init() returns the lock: it succeeded.
InitSucceeds == env'.inits = env.inits + 1 /\ shared_heap'.lock = "VALID"

\* C27: after every successful init, also one that follows allocations and a
\* deinit, the region is empty: the offset is 0, the list of strings is
\* empty, the out-of-memory flag is clear and all of heap_size is free; and
\* the list of an initialised region never starts at a node written before
\* the last init, so that no pointer handed out before a deinit comes back as
\* a hit of the list.
C27_InitEmptiesRegion ==
    /\ [][InitSucceeds =>
            /\ shared_heap'.offset = 0
            /\ shared_heap'.str_list_head = NULL
            /\ ~shared_heap'.out_of_memory
            /\ HeapFree(shared_heap') = shared_heap'.heap_size]_vars
    /\ []((shared_heap.lock = "VALID" /\ ~wild) =>
            shared_heap.str_list_head \in {NULL} \cup DOMAIN mem)

\* A call of stress_shared_heap_init() returns NULL: mmap or
\* stress_lock_create failed.
InitFails == env'.inits = env.inits + 1 /\ shared_heap'.lock # "VALID"

\* stress_shared_heap_deinit() is called.
Deinits == env'.deinits = env.deinits + 1

\* stress_shared_heap_malloc() or stress_shared_heap_dup_const() is called
\* from outside the file.
Calls == env'.calls = env.calls + 1

\* The region holds no lock: no init has succeeded since the start or the
\* last deinit.
NoRegion == shared_heap.lock = "NULL"

\* C28: an init that fails, because of mmap or because of stress_lock_create,
\* leaves heap and lock both absent; a deinit that follows calls neither
\* munmap nor stress_lock_destroy; and a malloc or dup_const that follows
\* returns NULL at once and changes nothing of the region or of its memory.
C28_FailedInitLeavesNothing ==
    /\ [][InitFails => shared_heap'.heap = "NULL" /\ shared_heap'.lock = "NULL"]_vars
    /\ [][(Deinits /\ NoRegion) => ~env'.munmap /\ ~env'.lock_destroy]_vars
    /\ [][(Calls /\ NoRegion) =>
            /\ shared_heap' = shared_heap /\ mem' = mem /\ wild' = wild
            /\ pc' = pc /\ mallocs' = mallocs
            /\ IF epoch'.ndups # epoch.ndups
               THEN \A d \in dups' \ dups : d.res = NULL /\ ~d.locks
               ELSE last_malloc'.res = NULL /\ ~last_malloc'.locked]_vars
====
